---- MODULE Spec2Model ----
(***************************************************************************)
(* A model of the linear CLI: the cursor pagination of ListAllIssues, the  *)
(* OAuth authorization-code flow with PKCE (Authenticate,                  *)
(* startCallbackServer, exchangeToken, SaveToken) and the resolution of    *)
(* the API key (GetAPIKey).                                                *)
(***************************************************************************)
EXTENDS Integers, Sequences, FiniteSets, TLC

\* ------------------------------------------------------------------ bounds

\* Longest scripted server (number of distinct responses before it repeats).
MaxPages == 3
\* Round trips that fit before the fetch-all deadline of the command expires.
MaxRequests == 4
\* Redirect answers to one call.
MaxHops == 1

\* ------------------------------------------------------------ pagination

VARIABLES
    script,      \* the server: its answers in order, the last one repeated
    fetchAll,    \* the --all flag of the command
    pgPc,        \* position of issueListCmd.Run / ListAllIssues
    after,       \* opts.After
    allIssues,   \* the accumulator of ListAllIssues
    reqLog,      \* the "after" variable of every request sent, in order
    ctxExpired,  \* the context of the command has passed its deadline
    pgErr,       \* the error ListAllIssues returned ("" while none)
    pgResult,    \* the slice ListAllIssues returned (<<>> for nil)
    lastPage     \* the last page ListAllIssues processed, with the cursor it was asked with

pageVars == <<script, fetchAll, pgPc, after, allIssues, reqLog, ctxExpired, pgErr, pgResult, lastPage>>

\* ------------------------------------------------- the OAuth flow: state

VARIABLES
    aPc,           \* position of runAuth / Authenticate / startCallbackServer
    codeVerifier,  \* the PKCE verifier of the attempt
    expectedState, \* the state generated for the attempt
    authURL,       \* the query parameters of the authorization URL
    listening,     \* ListenAndServe has bound the loopback port
    serverOpen,    \* the callback server has been started and not yet closed
    timerFired,    \* time.After(5 * time.Minute) has fired
    resultChan,    \* the buffered channel of startCallbackServer
    handlers,      \* the /callback requests accepted so far, each with its handler's position
    result,        \* the local variable result of startCallbackServer
    branch,        \* the branch the select took: "callback", "timeout" or "" before
    authCode,      \* the code startCallbackServer returned
    aErr,          \* the error Authenticate returned ("" while none)
    aErrDetail,    \* the text the error carries
    tokenReq,      \* the form posted to the token endpoint
    tokenResp,     \* the answer of the token endpoint
    token,         \* the TokenData exchangeToken returned
    exchanges,     \* number of requests sent to the token endpoint
    saves,         \* number of calls of Config.SaveToken
    saveOk,        \* the last SaveToken returned nil
    tokenFile,     \* ~/.linear/tokens.enc
    configDir,     \* ~/.linear
    umask,         \* the permission bits the process masks out on creation
    fileBefore     \* the token file as it was when the attempt began

authVars == <<aPc, codeVerifier, expectedState, authURL, listening, serverOpen,
              timerFired, resultChan, handlers, result, branch, authCode, aErr,
              aErrDetail, tokenReq, tokenResp, token, exchanges, saves, saveOk,
              tokenFile, configDir, umask, fileBefore>>

\* ------------------------------------------- credential resolution: state

VARIABLES
    envKey,     \* the value of LINEAR_API_KEY ("" when unset)
    keyring,    \* the system keyring: whether it opens, whether Get works, the entry
    gk,         \* what the last GetAPIKey returned, and whether it opened the keyring
    gkRing,     \* the keyring as that call found it
    lastSave,   \* the error the last SaveAPIKey returned ("none" before, "" for nil)
    apiClient,  \* what the last api.NewClient returned
    savedKey,   \* the key passed to the last SaveAPIKey that returned nil ("" if none)
    authStatus  \* what the last GetAuthStatus returned, and the keyring it found

credVars == <<envKey, keyring, gk, gkRing, lastSave, apiClient, savedKey, authStatus>>

\* --------------------------------------------- session encryption: state

VARIABLES
    cPlain,     \* the plaintext handed to encrypt
    cKey,       \* the key handed to encrypt
    cSealed,    \* what encrypt returned for them
    cSealed2,   \* what a second call of encrypt returned for them
    cBlob,      \* the blob as it is now: cSealed, or what became of it since
    dOut,       \* the last call of decrypt on cBlob: its key, input and result
    cLoad       \* the last LoadToken of a token file holding cBlob

cryptoVars == <<cPlain, cKey, cSealed, cSealed2, cBlob, dOut, cLoad>>

\* ------------------------------------------------ the token store: state

VARIABLES
    hostname,   \* what os.Hostname() returns
    homeDir,    \* what os.UserHomeDir() returns
    stSaved,    \* the last SaveToken or ClearToken that returned nil
    stLoad,     \* what the last LoadToken of a command returned
    stClear,    \* what the last ClearToken returned
    whoami,     \* how `auth whoami` ended, if it was the last command on the token file
    logout      \* how the last `auth logout` ended

storeVars == <<hostname, homeDir, whoami, stSaved, stLoad, stClear, logout>>

\* -------------------------------------------- the GraphQL transport: state

VARIABLES
    client,     \* what client.NewClient returned
    httpLog,    \* the HTTP requests of the calls of Client.Do and of
                \* api.Client.Query, in order: the host, the method, the
                \* Authorization header and the redirect status each follows
    doResp,     \* the last answer the http.Client returned to a call of Do
                \* (those of ListIssues are in the page group)
    doOut,      \* what that Do returned, and what it left in result
    team        \* how the last `team list` ended

doVars == <<client, httpLog, doResp, doOut, team>>

\* ----------------------------------------- concurrent SaveToken: state

VARIABLES
    wr,         \* per invocation: where its SaveToken is, its token and nonce
    disk,       \* the text of the token file, each character with its origin
    rcLoad      \* what LoadToken returned after both invocations finished

raceVars == <<wr, disk, rcLoad>>

\* ------------------------------------------- project resolution: state

VARIABLES
    pjIdent,    \* the identifier given with --project
    pjNodes,    \* the projects the server answers the name query with
    pjProject,  \* the project the server answers the query by id with
    pjOut       \* what GetProjectByIdentifier returned

projVars == <<pjIdent, pjNodes, pjProject, pjOut>>

vars == <<pageVars, authVars, credVars, cryptoVars, storeVars, doVars, raceVars, projVars>>

\* PageInfo.EndCursor values: the empty string and two server cursors.
Cursors == {"", "c1", "c2"}

\* Issues.Nodes of one page: issues 1, 2, 3 as the server orders them.
NodeLists == {<<1>>, <<2, 3>>}

\* The redirect answers the http.Client follows before it returns: a 302 is
\* followed with GET, a 307 with the method and body of the request; the
\* Location is on the host of the API (or a subdomain of it) or on another.
RedirectStatuses == {302, 307}
Hops == [status : RedirectStatuses, host : {"api", "other"}]
HopChains == UNION {[1..n -> Hops] : n \in 0..MaxHops}
NoHop == [status |-> 0, host |-> ""]

\* A request without an Authorization header.
NoHeader == "(absent)"

\* http.Client.Do on a POST to the endpoint with the Authorization header
\* auth: the request itself and one request for every redirect answer.  The
\* headers of the first request are copied to the later ones, Authorization
\* only until a redirect has left the domain of the first.
Requests(auth, hops) ==
    [k \in 1..(Len(hops) + 1) |->
        [host |-> IF k = 1 THEN "api" ELSE hops[k - 1].host,
         method |-> IF \E j \in 1..(k - 1) : hops[j].status = 302 THEN "GET" ELSE "POST",
         Authorization |-> IF \E j \in 1..(k - 1) : hops[j].host # "api"
                             THEN NoHeader ELSE auth,
         follows |-> IF k = 1 THEN 0 ELSE hops[k - 1].status]]

\* One scripted answer to an HTTP request: a page (nodes and pageInfo; the
\* end cursor of a page with hasNextPage = false, which is not read, is
\* empty), an answer that makes Do fail, or a redirect.
Responses ==
    [kind : {"page"}, nodes : NodeLists, hasNextPage : {TRUE}, endCursor : Cursors,
     hop : {NoHop}]
    \cup [kind : {"page"}, nodes : NodeLists, hasNextPage : {FALSE}, endCursor : {""},
           hop : {NoHop}]
    \cup {[kind |-> "fail", nodes |-> <<>>, hasNextPage |-> FALSE, endCursor |-> "",
            hop |-> NoHop]}
    \cup {[kind |-> "redirect", nodes |-> <<>>, hasNextPage |-> FALSE, endCursor |-> "",
            hop |-> h] : h \in Hops}

\* The scripted servers: no more than MaxHops redirects in a row, and the
\* last answer, which is repeated, is none.  A script ends with its first
\* answer that ends a fetch (a failure, or a page with hasNextPage = false):
\* ListAllIssues returns on it, and the answers after it would not be read.
Scripts ==
    {s \in UNION {[1..n -> Responses] : n \in 1..MaxPages} :
        /\ s[Len(s)].kind # "redirect"
        /\ \A i \in 1..(Len(s) - 1) :
              s[i].kind = "redirect" \/ (s[i].kind = "page" /\ s[i].hasNextPage)
        /\ \A i \in 1..(Len(s) - MaxHops) :
              \E j \in i..(i + MaxHops) : s[j].kind # "redirect"}

NoPage == [kind |-> "none", nodes |-> <<>>, hasNextPage |-> FALSE, endCursor |-> "", asked |-> ""]

\* The answer of the scripted server to its k-th HTTP request: the k-th entry
\* of the script, and the last entry to every request after the script's end.
ServerResponse(k) == script[IF k <= Len(script) THEN k ELSE Len(script)]

\* ctx.Done() as the HTTP client of Do observes it: the context built by the
\* command carries a deadline.
CtxDone_Background == FALSE
CtxDone == ctxExpired

\* opts.After = resp.Issues.PageInfo.EndCursor
NextAfter_Stale(cur, page) == cur
NextAfter(cur, page) == page.endCursor

\* allIssues = append(allIssues, resp.Issues.Nodes...)
AppendNodes(acc, nodes) == acc \o nodes

PageStart ==
    /\ script \in Scripts
    /\ fetchAll = FALSE
    /\ pgPc = "idle"
    /\ after = ""
    /\ allIssues = <<>>
    /\ reqLog = <<>>
    /\ ctxExpired = FALSE
    /\ pgErr = ""
    /\ pgResult = <<>>
    /\ lastPage = NoPage

\* No fetch is made.
PageIdle ==
    /\ script = <<>>
    /\ fetchAll = FALSE
    /\ pgPc = "off"
    /\ after = ""
    /\ allIssues = <<>>
    /\ reqLog = <<>>
    /\ ctxExpired = FALSE
    /\ pgErr = ""
    /\ pgResult = <<>>
    /\ lastPage = NoPage

\* ------------------------------------------------- the OAuth flow: values

\* Longest run of /callback requests the loopback server accepts in one attempt.
MaxCallbacks == 2

\* make(chan authorizationResponse, 1)
ChanCap == 1

\* http.StatusOK
StatusOK == 200

\* Values of generateCodeVerifier and of generateRandomString(32).
Verifiers == {"v1", "v2"}
StateTokens == {"s1", "s2"}

\* The query parameters a /callback request may carry.
CallbackCodes == {"", "a1"}
CallbackStates == {"", "s1"}
CallbackErrors == {"", "access_denied"}

TimeoutMsg == "timeout waiting for authorization"

\* authorizationResponse, and its zero value.
AuthorizationResponses ==
    [Code : CallbackCodes, State : CallbackStates, Error : CallbackErrors]
ZeroResponse == [Code |-> "", State |-> "", Error |-> ""]

\* sha256.Sum256 on the verifiers of the model: distinct digests.
Sha256(v) == CASE v = "v1" -> "d1" [] v = "v2" -> "d2" [] OTHER -> "d0"

\* base64.RawURLEncoding.EncodeToString on the digests of the model.
RawURLEncode(d) == CASE d = "d1" -> "ZDE" [] d = "d2" -> "ZDI" [] OTHER -> "ZDA"

\* generateCodeChallenge
generateCodeChallenge_Plain(verifier) == verifier
generateCodeChallenge(verifier) == RawURLEncode(Sha256(verifier))

\* buildAuthURL: the PKCE and state parameters of the authorization URL.
buildAuthURL(codeChallenge, state) ==
    [response_type |-> "code", state |-> state, code_challenge |-> codeChallenge,
     code_challenge_method |-> "S256"]

NoURL == [response_type |-> "", state |-> "", code_challenge |-> "",
          code_challenge_method |-> ""]

\* The form exchangeToken posts.
exchangeForm(code, verifier) ==
    [grant_type |-> "authorization_code", code |-> code, code_verifier |-> verifier]

NoForm == [grant_type |-> "", code |-> "", code_verifier |-> ""]

\* What the token endpoint can answer: no answer at all, or a status and a body
\* that is a token object, an empty JSON object or not JSON.
TokenResponses ==
    {[transport |-> "ok", status |-> 200, body |-> "token"],
     [transport |-> "ok", status |-> 200, body |-> "empty"],
     [transport |-> "ok", status |-> 200, body |-> "garbage"],
     [transport |-> "ok", status |-> 201, body |-> "token"],
     [transport |-> "ok", status |-> 400, body |-> "garbage"],
     [transport |-> "failed", status |-> 0, body |-> ""]}

NoResponse == [transport |-> "", status |-> 0, body |-> ""]

\* json.Unmarshal(body, &token): the TokenData, "" when the body does not decode.
DecodeToken(body) ==
    CASE body = "token" -> "tokNew" [] body = "empty" -> "tokZero" [] OTHER -> ""

\* The checks of exchangeToken on the answer: the error, "" for none.
exchangeError(resp) ==
    IF resp.transport # "ok" THEN "transport"
    ELSE IF resp.status # StatusOK THEN "status"
    ELSE IF DecodeToken(resp.body) = "" THEN "parse"
    ELSE ""

\* The checks of startCallbackServer on result, in their order: the error kind,
\* "" when the code is returned.
validateResult_StateFirst(res, expected) ==
    IF res.State # expected THEN "state_mismatch"
    ELSE IF res.Error # "" THEN "authorization_error"
    ELSE IF res.Code = "" THEN "no_code"
    ELSE ""
validateResult_NoState(res, expected) ==
    IF res.Error # "" THEN "authorization_error"
    ELSE IF res.Code = "" THEN "no_code"
    ELSE ""
validateResult_NoCode(res, expected) ==
    IF res.Error # "" THEN "authorization_error"
    ELSE IF res.State # expected THEN "state_mismatch"
    ELSE ""
validateResult(res, expected) ==
    IF res.Error # "" THEN "authorization_error"
    ELSE IF res.State # expected THEN "state_mismatch"
    ELSE IF res.Code = "" THEN "no_code"
    ELSE ""

\* ----------------------------------------------- session encryption: values

\* Longest plaintext, in bytes.
MaxPlain == 2

\* The values of a byte.
Bytes == {0, 1}

Plaintexts == UNION {[1..n -> Bytes] : n \in 0..MaxPlain}

\* The iteration count and the key length deriveKey passes to pbkdf2.Key.
PBKDF2Iterations == 100000
KeyLen == 32

\* os.Hostname() and os.UserHomeDir() ("" when the call fails).
Hosts == {"h1", "h2"}
Homes == {"/home/a", "/home/b"}

\* deriveKey: pbkdf2.Key(password, salt, 100000, 32, sha256.New) with the
\* password home + "-linear-token-key" and the salt hostname + "-linear-cli".
\* The strings are concatenated as the code does; the bytes of PBKDF2 are not
\* computed: a key is the term of the arguments of pbkdf2.Key, and two keys
\* are taken to be equal when their arguments are.
deriveKey(host, homePath) ==
    [password |-> homePath \o "-linear-token-key", salt |-> host \o "-linear-cli",
     iter |-> PBKDF2Iterations, keyLen |-> KeyLen]

Keys == {deriveKey(h, d) : h \in Hosts, d \in Homes}

\* The nonces rand.Reader can deliver, and its failure.
Nonces == {"n1", "n2"}
NoNonce == ""

\* Byte i of the key stream of AES in counter mode under a key and a nonce.
KeyStream(key, nonce, i) ==
    ((IF key.salt = "h1-linear-cli" THEN 0 ELSE 1)
       + (IF key.password = "/home/a-linear-token-key" THEN 0 ELSE i)
       + (IF nonce = "n1" THEN 0 ELSE 1) + i) % 2

\* The exclusive or of two bytes.
Xor(a, b) == (a + b) % 2

\* The counter-mode pass of gcm.Seal and gcm.Open over a byte sequence.
XorKeyStream(key, nonce, bytes) ==
    [i \in 1..Len(bytes) |-> Xor(bytes[i], KeyStream(key, nonce, i))]

\* The authentication tag of GCM: it stands for the key, the nonce and the
\* ciphertext it was computed from.
gcmTag(key, nonce, ct) == <<"tag", key, nonce, ct>>

\* The bytes under the base64 text: fewer than a nonce, a nonce followed by
\* fewer bytes than a tag, or nonce, ciphertext and tag.
ShortRaw == [size |-> "short", nonce |-> "", ct |-> <<>>, tag |-> <<>>]

\* gcm.Seal(nonce, nonce, plaintext, nil): nonce, ciphertext, tag.
Seal_NoNoncePrefix(key, nonce, plaintext) ==
    LET ct == XorKeyStream(key, nonce, plaintext) IN
    [size |-> "full", nonce |-> "n0", ct |-> ct, tag |-> gcmTag(key, nonce, ct)]
Seal(key, nonce, plaintext) ==
    LET ct == XorKeyStream(key, nonce, plaintext) IN
    [size |-> "full", nonce |-> nonce, ct |-> ct, tag |-> gcmTag(key, nonce, ct)]

\* gcm.Open(nil, nonce, ciphertext, nil): the plaintext if the tag verifies.
Open_Unverified(key, raw) ==
    IF raw.size # "full" THEN [plain |-> <<>>, err |-> "open"]
    ELSE [plain |-> XorKeyStream(key, raw.nonce, raw.ct), err |-> ""]
Open(key, raw) ==
    IF raw.size # "full" THEN [plain |-> <<>>, err |-> "open"]
    ELSE IF raw.tag # gcmTag(key, raw.nonce, raw.ct) THEN [plain |-> <<>>, err |-> "open"]
    ELSE [plain |-> XorKeyStream(key, raw.nonce, raw.ct), err |-> ""]

\* base64.StdEncoding: EncodeToString gives the canonical text; DecodeString
\* also accepts that text with line breaks in it, and rejects other text.
StdEncode(raw) == [fmt |-> "b64", raw |-> raw]
StdDecode(encoded) ==
    IF encoded.fmt \in {"b64", "b64nl"}
      THEN [raw |-> encoded.raw, err |-> ""]
      ELSE [raw |-> ShortRaw, err |-> "base64"]

\* The empty byte string: base64 text of no bytes.
EmptyBlob == StdEncode(ShortRaw)

\* encrypt, with the nonce rand.Reader delivered.
encrypt(plaintext, key, nonce) ==
    IF nonce = NoNonce THEN [blob |-> EmptyBlob, err |-> "rand"]
    ELSE [blob |-> StdEncode(Seal(key, nonce, plaintext)), err |-> ""]

\* decrypt
decrypt(encoded, key) ==
    LET d == StdDecode(encoded) IN
    IF d.err # "" THEN [plain |-> <<>>, err |-> "base64"]
    ELSE IF d.raw.size = "short" THEN [plain |-> <<>>, err |-> "ciphertext too short"]
    ELSE Open(key, d.raw)

\* The TokenData values of the model.
Tokens == {"tokNew", "tokOld", "tokZero", "tokShort"}

\* json.Marshal(token) and json.Unmarshal(data, &token) ("" when data is not
\* the JSON of a TokenData).
jsonMarshal(tok) ==
    CASE tok = "tokNew" -> <<1, 0>> [] tok = "tokOld" -> <<0, 1>>
      [] tok = "tokShort" -> <<1>> [] OTHER -> <<1, 1>>
jsonUnmarshal(data) ==
    IF \E t \in Tokens : jsonMarshal(t) = data
      THEN CHOOSE t \in Tokens : jsonMarshal(t) = data
      ELSE ""

\* Permission bits.
M0600 == {"ur", "uw"}
M0644 == {"ur", "uw", "gr", "or"}
M0700 == {"ur", "uw", "ux"}
M0755 == {"ur", "uw", "ux", "gr", "gx", "or", "ox"}
Umask022 == {"gw", "ow"}

NoFile == [exists |-> FALSE, mode |-> {}, data |-> EmptyBlob]

\* os.MkdirAll(configDir, 0700) in config.New: an existing directory is left as
\* it is, a missing one is created with 0700 less the umask.
MkdirAll(dir, perm, mask) ==
    IF dir.exists THEN dir ELSE [exists |-> TRUE, mode |-> perm \ mask]

\* os.WriteFile(c.TokenFile, encrypted, 0600): O_WRONLY|O_CREATE|O_TRUNC, the
\* mode is applied only when the file is created; a failed write leaves the
\* file truncated.
WriteFile_NoTruncate(file, blob, perm, mask, ioOk) ==
    [exists |-> TRUE,
     mode |-> IF file.exists THEN file.mode ELSE perm \ mask,
     data |-> IF file.exists THEN file.data ELSE IF ioOk THEN blob ELSE EmptyBlob]
WriteFile(file, blob, perm, mask, ioOk) ==
    [exists |-> TRUE,
     mode |-> IF file.exists THEN file.mode ELSE perm \ mask,
     data |-> IF ioOk THEN blob ELSE EmptyBlob]

\* The open of WriteFile succeeds: an existing file must be writable, a new one
\* needs a writable directory.
CanOpenForWrite(file, dir) ==
    /\ dir.exists
    /\ "ux" \in dir.mode
    /\ IF file.exists THEN "uw" \in file.mode ELSE "uw" \in dir.mode

\* encrypt(json.Marshal(token), key) in SaveToken, with the nonce it drew.
EncryptedBlob(tok, key, nonce) == encrypt(jsonMarshal(tok), key, nonce).blob

\* c.deriveKey() on this machine.
MachineKey == deriveKey(hostname, homeDir)

\* Config.SaveToken: marshal, encrypt, WriteFile; the token file afterwards
\* and the error ("" for nil).
saveToken(file, dir, mask, tok, key, nonce, ioOk) ==
    IF encrypt(jsonMarshal(tok), key, nonce).err # ""
      THEN [file |-> file, err |-> "encrypt"]
    ELSE IF ~CanOpenForWrite(file, dir)
      THEN [file |-> file, err |-> "write"]
    ELSE [file |-> WriteFile(file, EncryptedBlob(tok, key, nonce), M0600, mask, ioOk),
          err |-> IF ioOk THEN "" ELSE "write"]

\* The flow before it starts.
AuthFresh ==
    /\ aPc = "idle"
    /\ codeVerifier = ""
    /\ expectedState = ""
    /\ authURL = NoURL
    /\ listening = FALSE
    /\ serverOpen = FALSE
    /\ timerFired = FALSE
    /\ resultChan = <<>>
    /\ handlers = <<>>
    /\ result = ZeroResponse
    /\ branch = ""
    /\ authCode = ""
    /\ aErr = ""
    /\ aErrDetail = ""
    /\ tokenReq = NoForm
    /\ tokenResp = NoResponse
    /\ token = ""
    /\ exchanges = 0
    /\ saves = 0
    /\ saveOk = FALSE

NoDir == [exists |-> FALSE, mode |-> {}]

\* No authorization attempt is made.
AuthIdle ==
    /\ AuthFresh
    /\ umask = Umask022
    /\ configDir = NoDir
    /\ tokenFile = NoFile
    /\ fileBefore = NoFile

\* What earlier runs or the user may have left: nothing, an owner-only
\* directory without or with an owner-only token file, or a directory and a
\* token file that others can read.
PriorMachines ==
    {[dir |-> NoDir, file |-> NoFile],
     [dir |-> [exists |-> TRUE, mode |-> M0700], file |-> NoFile],
     [dir |-> [exists |-> TRUE, mode |-> M0700],
      file |-> [exists |-> TRUE, mode |-> M0600,
                data |-> EncryptedBlob("tokOld", deriveKey("h1", "/home/a"), "n1")]],
     [dir |-> [exists |-> TRUE, mode |-> M0755],
      file |-> [exists |-> TRUE, mode |-> M0644,
                data |-> EncryptedBlob("tokOld", deriveKey("h1", "/home/a"), "n1")]]}

\* The machine before `linear auth`: the configuration directory and the token
\* file may exist from earlier runs, with the modes those runs or the user
\* left them with.
AuthStart ==
    /\ AuthFresh
    /\ umask = Umask022
    /\ \E m \in PriorMachines : configDir = m.dir /\ tokenFile = m.file
    /\ fileBefore = tokenFile

\* ------------------------------------------------ the OAuth flow: actions

\* runAuth up to the select of startCallbackServer: config.New creates the
\* directory, Authenticate draws the verifier and the state, builds the URL,
\* registers the handler and starts the server, which may fail to bind.
RunAuth(outcome, v, s, bound) ==
    /\ aPc = "idle"
    /\ IF outcome = "no_client"
         THEN /\ aPc' = "failed"
              /\ aErr' = "no_client"
              /\ UNCHANGED <<configDir, codeVerifier, expectedState, authURL,
                             listening, serverOpen>>
         ELSE IF outcome = "rand"
         THEN /\ configDir' = MkdirAll(configDir, M0700, umask)
              /\ aPc' = "failed"
              /\ aErr' = "rand"
              /\ UNCHANGED <<codeVerifier, expectedState, authURL, listening, serverOpen>>
         ELSE /\ configDir' = MkdirAll(configDir, M0700, umask)
              /\ codeVerifier' = v
              /\ expectedState' = s
              /\ authURL' = buildAuthURL(generateCodeChallenge(v), s)
              /\ listening' = bound
              /\ serverOpen' = TRUE
              /\ aPc' = "wait"
              /\ UNCHANGED aErr
    /\ UNCHANGED <<timerFired, resultChan, handlers, result, branch, authCode,
                   aErrDetail, tokenReq, tokenResp, token, exchanges, saves, saveOk,
                   tokenFile, umask, fileBefore>>
    /\ UNCHANGED <<pageVars, credVars, cryptoVars, storeVars, doVars, raceVars, projVars>>

\* A GET /callback reaches the open server: a handler starts with its query.
CallbackArrives(resp) ==
    /\ serverOpen
    /\ listening
    /\ Len(handlers) < MaxCallbacks
    /\ handlers' = Append(handlers, [resp |-> resp, pc |-> "deliver", wrote |-> FALSE])
    /\ UNCHANGED <<aPc, codeVerifier, expectedState, authURL, listening, serverOpen,
                   timerFired, resultChan, result, branch, authCode, aErr, aErrDetail,
                   tokenReq, tokenResp, token, exchanges, saves, saveOk, tokenFile,
                   configDir, umask, fileBefore>>
    /\ UNCHANGED <<pageVars, credVars, cryptoVars, storeVars, doVars, raceVars, projVars>>

\* The handler's resultChan <- response: it blocks while the buffer is full.
HandlerDeliver(i) ==
    /\ i \in 1..Len(handlers)
    /\ handlers[i].pc = "deliver"
    /\ Len(resultChan) < ChanCap
    /\ resultChan' = Append(resultChan, handlers[i].resp)
    /\ handlers' = [handlers EXCEPT ![i].pc = "write"]
    /\ UNCHANGED <<aPc, codeVerifier, expectedState, authURL, listening, serverOpen,
                   timerFired, result, branch, authCode, aErr, aErrDetail, tokenReq,
                   tokenResp, token, exchanges, saves, saveOk, tokenFile, configDir,
                   umask, fileBefore>>
    /\ UNCHANGED <<pageVars, credVars, cryptoVars, storeVars, doVars, raceVars, projVars>>

\* The handler writes its page; the page reaches the browser only if the
\* server has not closed the connection.
HandlerWrite(i) ==
    /\ i \in 1..Len(handlers)
    /\ handlers[i].pc = "write"
    /\ handlers' = [handlers EXCEPT ![i].pc = "done", ![i].wrote = serverOpen]
    /\ UNCHANGED <<aPc, codeVerifier, expectedState, authURL, listening, serverOpen,
                   timerFired, resultChan, result, branch, authCode, aErr, aErrDetail,
                   tokenReq, tokenResp, token, exchanges, saves, saveOk, tokenFile,
                   configDir, umask, fileBefore>>
    /\ UNCHANGED <<pageVars, credVars, cryptoVars, storeVars, doVars, raceVars, projVars>>

\* Five minutes have passed since the select began.
TimerFires ==
    /\ aPc = "wait"
    /\ ~timerFired
    /\ timerFired' = TRUE
    /\ UNCHANGED <<aPc, codeVerifier, expectedState, authURL, listening, serverOpen,
                   resultChan, handlers, result, branch, authCode, aErr, aErrDetail,
                   tokenReq, tokenResp, token, exchanges, saves, saveOk, tokenFile,
                   configDir, umask, fileBefore>>
    /\ UNCHANGED <<pageVars, credVars, cryptoVars, storeVars, doVars, raceVars, projVars>>

\* case result = <-resultChan: the receive of the select.
SelectResult ==
    /\ aPc = "wait"
    /\ resultChan # <<>>
    /\ result' = Head(resultChan)
    /\ resultChan' = Tail(resultChan)
    /\ branch' = "callback"
    /\ aPc' = "close"
    /\ UNCHANGED <<codeVerifier, expectedState, authURL, listening, serverOpen,
                   timerFired, handlers, authCode, aErr, aErrDetail, tokenReq,
                   tokenResp, token, exchanges, saves, saveOk, tokenFile, configDir,
                   umask, fileBefore>>
    /\ UNCHANGED <<pageVars, credVars, cryptoVars, storeVars, doVars, raceVars, projVars>>

\* case <-time.After(5 * time.Minute): the receive of the select.
SelectTimeout ==
    /\ aPc = "wait"
    /\ timerFired
    /\ branch' = "timeout"
    /\ aPc' = "close"
    /\ UNCHANGED <<codeVerifier, expectedState, authURL, listening, serverOpen,
                   timerFired, resultChan, handlers, result, authCode, aErr, aErrDetail,
                   tokenReq, tokenResp, token, exchanges, saves, saveOk, tokenFile,
                   configDir, umask, fileBefore>>
    /\ UNCHANGED <<pageVars, credVars, cryptoVars, storeVars, doVars, raceVars, projVars>>

\* server.Close(), the first statement of either case of the select.
ServerClose_OnResultOnly ==
    /\ aPc = "close"
    /\ serverOpen' = IF branch = "callback" THEN FALSE ELSE serverOpen
    /\ aPc' = IF branch = "callback" THEN "validate" ELSE "timeoutSend"
    /\ UNCHANGED <<codeVerifier, expectedState, authURL, listening, timerFired,
                   resultChan, handlers, result, branch, authCode, aErr, aErrDetail,
                   tokenReq, tokenResp, token, exchanges, saves, saveOk, tokenFile,
                   configDir, umask, fileBefore>>
    /\ UNCHANGED <<pageVars, credVars, cryptoVars, storeVars, doVars, raceVars, projVars>>
ServerClose ==
    /\ aPc = "close"
    /\ serverOpen' = FALSE
    /\ aPc' = IF branch = "callback" THEN "validate" ELSE "timeoutSend"
    /\ UNCHANGED <<codeVerifier, expectedState, authURL, listening, timerFired,
                   resultChan, handlers, result, branch, authCode, aErr, aErrDetail,
                   tokenReq, tokenResp, token, exchanges, saves, saveOk, tokenFile,
                   configDir, umask, fileBefore>>
    /\ UNCHANGED <<pageVars, credVars, cryptoVars, storeVars, doVars, raceVars, projVars>>

\* resultChan <- authorizationResponse{Error: "timeout waiting for
\* authorization"} in the timeout branch: it blocks while the buffer is full,
\* and result keeps its zero value.
TimeoutSend ==
    /\ aPc = "timeoutSend"
    /\ Len(resultChan) < ChanCap
    /\ resultChan' = Append(resultChan, [Code |-> "", State |-> "", Error |-> TimeoutMsg])
    /\ aPc' = "validate"
    /\ UNCHANGED <<codeVerifier, expectedState, authURL, listening, serverOpen,
                   timerFired, handlers, result, branch, authCode, aErr, aErrDetail,
                   tokenReq, tokenResp, token, exchanges, saves, saveOk, tokenFile,
                   configDir, umask, fileBefore>>
    /\ UNCHANGED <<pageVars, credVars, cryptoVars, storeVars, doVars, raceVars, projVars>>

\* The checks after the select: startCallbackServer returns the code or an
\* error, which Authenticate returns wrapped.
ValidateResult ==
    /\ aPc = "validate"
    /\ LET e == validateResult(result, expectedState) IN
       IF e # ""
         THEN /\ aPc' = "failed"
              /\ aErr' = e
              /\ aErrDetail' = IF e = "authorization_error" THEN result.Error ELSE ""
              /\ UNCHANGED authCode
         ELSE /\ authCode' = result.Code
              /\ aPc' = "exchange"
              /\ UNCHANGED <<aErr, aErrDetail>>
    /\ UNCHANGED <<codeVerifier, expectedState, authURL, listening, serverOpen,
                   timerFired, resultChan, handlers, result, branch, tokenReq,
                   tokenResp, token, exchanges, saves, saveOk, tokenFile, configDir,
                   umask, fileBefore>>
    /\ UNCHANGED <<pageVars, credVars, cryptoVars, storeVars, doVars, raceVars, projVars>>

\* exchangeToken: one POST to the token endpoint and the checks on its answer.
ExchangeToken(resp) ==
    /\ aPc = "exchange"
    /\ tokenReq' = exchangeForm(authCode, codeVerifier)
    /\ tokenResp' = resp
    /\ exchanges' = exchanges + 1
    /\ LET e == exchangeError(resp) IN
       IF e # ""
         THEN /\ aPc' = "failed"
              /\ aErr' = "exchange"
              /\ aErrDetail' = e
              /\ UNCHANGED token
         ELSE /\ token' = DecodeToken(resp.body)
              /\ aPc' = "save"
              /\ UNCHANGED <<aErr, aErrDetail>>
    /\ UNCHANGED <<codeVerifier, expectedState, authURL, listening, serverOpen,
                   timerFired, resultChan, handlers, result, branch, authCode, saves,
                   saveOk, tokenFile, configDir, umask, fileBefore>>
    /\ UNCHANGED <<pageVars, credVars, cryptoVars, storeVars, doVars, raceVars, projVars>>

\* Config.SaveToken as Authenticate calls it: marshal, encrypt, WriteFile.
SaveToken(nonce, ioOk) ==
    /\ aPc = "save"
    /\ saves' = saves + 1
    /\ LET r == saveToken(tokenFile, configDir, umask, token, MachineKey, nonce, ioOk) IN
          /\ tokenFile' = r.file
          /\ saveOk' = (r.err = "")
          /\ aErrDetail' = r.err
    /\ aPc' = IF saveOk' THEN "done" ELSE "failed"
    /\ aErr' = IF saveOk' THEN "" ELSE "save"
    /\ UNCHANGED <<codeVerifier, expectedState, authURL, listening, serverOpen,
                   timerFired, resultChan, handlers, result, branch, authCode, tokenReq,
                   tokenResp, token, exchanges, configDir, umask, fileBefore>>
    /\ UNCHANGED <<pageVars, credVars, cryptoVars, storeVars, doVars, raceVars, projVars>>

AuthStep ==
    \/ \E outcome \in {"ok", "no_client", "rand"}, v \in Verifiers, s \in StateTokens,
          bound \in BOOLEAN : RunAuth(outcome, v, s, bound)
    \/ \E resp \in AuthorizationResponses : CallbackArrives(resp)
    \/ \E i \in 1..MaxCallbacks : HandlerDeliver(i)
    \/ \E i \in 1..MaxCallbacks : HandlerWrite(i)
    \/ TimerFires
    \/ SelectResult
    \/ SelectTimeout
    \/ ServerClose
    \/ TimeoutSend
    \/ ValidateResult
    \/ \E resp \in TokenResponses : ExchangeToken(resp)
    \/ \E nonce \in Nonces \cup {NoNonce}, ioOk \in BOOLEAN : SaveToken(nonce, ioOk)


\* ---------------------------------------------------- credential resolution

\* Values of an API key.
APIKeys == {"k1", "k2"}

\* The keyring without the entry "api-key" (ring.Get gives ErrKeyNotFound);
\* an entry whose data is empty is an entry.
NoItem == "(no entry)"

NotCalled == [called |-> FALSE, key |-> "", err |-> "", opened |-> FALSE]
NoClient == [called |-> FALSE, token |-> "", err |-> ""]

\* GetAPIKey: the environment variable, then the keyring.
GetAPIKey(env, ring) ==
    IF env # ""
      THEN [called |-> TRUE, key |-> env, err |-> "", opened |-> FALSE]
    ELSE IF ~ring.opens
      THEN [called |-> TRUE, key |-> "", err |-> "keyring_access", opened |-> TRUE]
    ELSE IF ~ring.reads
      THEN [called |-> TRUE, key |-> "", err |-> "keyring_read", opened |-> TRUE]
    ELSE IF ring.item = NoItem
      THEN [called |-> TRUE, key |-> "", err |-> "no_api_key", opened |-> TRUE]
    ELSE [called |-> TRUE, key |-> ring.item, err |-> "", opened |-> TRUE]

\* Config.LoadToken on the token file: the stored TokenData, or the error.
LoadToken(file, key) ==
    IF ~file.exists THEN [token |-> "", err |-> "no_token"]
    ELSE IF "ur" \notin file.mode THEN [token |-> "", err |-> "read"]
    ELSE IF decrypt(file.data, key).err # "" THEN [token |-> "", err |-> "decrypt"]
    ELSE IF jsonUnmarshal(decrypt(file.data, key).plain) = ""
      THEN [token |-> "", err |-> "unmarshal"]
    ELSE [token |-> jsonUnmarshal(decrypt(file.data, key).plain), err |-> ""]

\* GetAuthStatus: the source it names and whether it reports authenticated.
GetAuthStatus_NoEnv(env, ring) ==
    IF ~ring.opens
      THEN [source |-> "Error accessing keyring", authenticated |-> FALSE]
    ELSE IF ~ring.reads
      THEN [source |-> "Error reading keyring", authenticated |-> FALSE]
    ELSE IF ring.item = NoItem
      THEN [source |-> "Not authenticated", authenticated |-> FALSE]
    ELSE [source |-> "System keyring", authenticated |-> TRUE]
GetAuthStatus_ErrorIsAbsent(env, ring) ==
    IF env # ""
      THEN [source |-> "Environment variable (LINEAR_API_KEY)", authenticated |-> TRUE]
    ELSE IF ~ring.opens \/ ~ring.reads \/ ring.item = NoItem
      THEN [source |-> "Not authenticated", authenticated |-> FALSE]
    ELSE [source |-> "System keyring", authenticated |-> TRUE]
GetAuthStatus(env, ring) ==
    IF env # ""
      THEN [source |-> "Environment variable (LINEAR_API_KEY)", authenticated |-> TRUE]
    ELSE IF ~ring.opens
      THEN [source |-> "Error accessing keyring", authenticated |-> FALSE]
    ELSE IF ~ring.reads
      THEN [source |-> "Error reading keyring", authenticated |-> FALSE]
    ELSE IF ring.item = NoItem
      THEN [source |-> "Not authenticated", authenticated |-> FALSE]
    ELSE [source |-> "System keyring", authenticated |-> TRUE]

NoStatus == [called |-> FALSE, source |-> "", authenticated |-> FALSE,
             ring |-> [opens |-> TRUE, reads |-> TRUE, item |-> NoItem]]

CredIdle ==
    /\ envKey = ""
    /\ keyring = [opens |-> TRUE, reads |-> TRUE, item |-> NoItem]
    /\ gk = NotCalled
    /\ gkRing = keyring
    /\ lastSave = "none"
    /\ apiClient = NoClient
    /\ savedKey = ""
    /\ authStatus = NoStatus

\* The process environment and the keyring as the command finds them.
CredStart ==
    /\ envKey \in {""} \cup APIKeys
    /\ keyring \in [opens : BOOLEAN, reads : BOOLEAN, item : {NoItem, ""} \cup APIKeys]
    /\ gk = NotCalled
    /\ gkRing = keyring
    /\ lastSave = "none"
    /\ apiClient = NoClient
    /\ savedKey = ""
    /\ authStatus = NoStatus

\* A command resolves the API key (client.NewClient calls GetAPIKey).
CallGetAPIKey ==
    /\ gk' = GetAPIKey(envKey, keyring)
    /\ gkRing' = keyring
    /\ UNCHANGED <<envKey, keyring, lastSave, apiClient, savedKey, authStatus>>
    /\ UNCHANGED <<pageVars, authVars, cryptoVars, storeVars, doVars, raceVars, projVars>>

\* authStatusCmd: GetAuthStatus.
CallGetAuthStatus ==
    /\ LET r == GetAuthStatus(envKey, keyring) IN
       authStatus' = [called |-> TRUE, source |-> r.source,
                      authenticated |-> r.authenticated, ring |-> keyring]
    /\ UNCHANGED <<envKey, keyring, gk, gkRing, lastSave, apiClient, savedKey>>
    /\ UNCHANGED <<pageVars, authVars, cryptoVars, storeVars, doVars, raceVars, projVars>>

\* SaveAPIKey: open the keyring and set the entry.
SaveAPIKey_KeepExisting(apiKey, setOk) ==
    /\ IF ~keyring.opens
         THEN /\ lastSave' = "keyring_access"
              /\ UNCHANGED <<keyring, savedKey>>
         ELSE IF ~setOk
         THEN /\ lastSave' = "keyring_save"
              /\ UNCHANGED <<keyring, savedKey>>
         ELSE /\ keyring' = IF keyring.item = "" THEN [keyring EXCEPT !.item = apiKey]
                                                 ELSE keyring
              /\ savedKey' = apiKey
              /\ lastSave' = ""
    /\ UNCHANGED <<envKey, gk, gkRing, apiClient, authStatus>>
    /\ UNCHANGED <<pageVars, authVars, cryptoVars, storeVars, doVars, raceVars, projVars>>
SaveAPIKey(apiKey, setOk) ==
    /\ IF ~keyring.opens
         THEN /\ lastSave' = "keyring_access"
              /\ UNCHANGED <<keyring, savedKey>>
         ELSE IF ~setOk
         THEN /\ lastSave' = "keyring_save"
              /\ UNCHANGED <<keyring, savedKey>>
         ELSE /\ keyring' = [keyring EXCEPT !.item = apiKey]
              /\ savedKey' = apiKey
              /\ lastSave' = ""
    /\ UNCHANGED <<envKey, gk, gkRing, apiClient, authStatus>>
    /\ UNCHANGED <<pageVars, authVars, cryptoVars, storeVars, doVars, raceVars, projVars>>

\* The keyring backend becomes available or unavailable between two calls.
BackendChanges(opens, reads) ==
    /\ <<opens, reads>> # <<keyring.opens, keyring.reads>>
    /\ keyring' = [keyring EXCEPT !.opens = opens, !.reads = reads]
    /\ UNCHANGED <<envKey, gk, gkRing, lastSave, apiClient, savedKey, authStatus>>
    /\ UNCHANGED <<pageVars, authVars, cryptoVars, storeVars, doVars, raceVars, projVars>>

\* api.NewClient: the client takes its token from the token file alone.
APINewClient ==
    /\ LET t == LoadToken(tokenFile, MachineKey) IN
       apiClient' = [called |-> TRUE, token |-> t.token, err |-> t.err]
    /\ UNCHANGED <<envKey, keyring, gk, gkRing, lastSave, savedKey, authStatus>>
    /\ UNCHANGED <<pageVars, authVars, cryptoVars, storeVars, doVars, raceVars, projVars>>

CredStep ==
    \/ CallGetAPIKey
    \/ CallGetAuthStatus
    \/ \E apiKey \in APIKeys, setOk \in BOOLEAN : SaveAPIKey(apiKey, setOk)
    \/ \E opens \in BOOLEAN, reads \in BOOLEAN : BackendChanges(opens, reads)
    \/ APINewClient

\* ------------------------------------------------------ session encryption

NotSealed == [blob |-> EmptyBlob, err |-> "none"]
NoDecrypt == [called |-> FALSE, key |-> deriveKey("", ""), plain |-> <<>>, err |-> ""]
NoLoad == [called |-> FALSE, key |-> deriveKey("", ""), token |-> "", err |-> ""]

\* No blob is made.
CryptoIdle ==
    /\ cPlain = <<>>
    /\ cKey = deriveKey("", "")
    /\ cSealed = NotSealed
    /\ cSealed2 = NotSealed
    /\ cBlob = EmptyBlob
    /\ dOut = NoDecrypt
    /\ cLoad = NoLoad

\* A plaintext and a derived key.
CryptoStart ==
    /\ cPlain \in Plaintexts
    /\ cKey \in Keys
    /\ cSealed = NotSealed
    /\ cSealed2 = NotSealed
    /\ cBlob = EmptyBlob
    /\ dOut = NoDecrypt
    /\ cLoad = NoLoad

\* The blob has been made and nothing has read it yet.
BlobAtRest ==
    /\ cSealed.err = ""
    /\ cSealed2 = NotSealed
    /\ ~dOut.called
    /\ ~cLoad.called

\* A tag that was not computed with the key of the blob: the tag under
\* another key, or the tag with a bit changed.
FlippedTag == <<"tag", "flipped">>
OtherTags(raw) == {gcmTag(k, raw.nonce, raw.ct) : k \in Keys \ {cKey}} \cup {FlippedTag}

\* encrypt(plaintext, key)
Encrypt(nonce) ==
    /\ cSealed = NotSealed
    /\ cSealed' = encrypt(cPlain, cKey, nonce)
    /\ cBlob' = cSealed'.blob
    /\ UNCHANGED <<cPlain, cKey, cSealed2, dOut, cLoad>>
    /\ UNCHANGED <<pageVars, authVars, credVars, storeVars, doVars, raceVars, projVars>>

\* encrypt(plaintext, key) once more, on the same plaintext and key.
EncryptAgain(nonce) ==
    /\ BlobAtRest
    /\ cBlob = cSealed.blob
    /\ cSealed2' = encrypt(cPlain, cKey, nonce)
    /\ UNCHANGED <<cPlain, cKey, cSealed, cBlob, dOut, cLoad>>
    /\ UNCHANGED <<pageVars, authVars, credVars, storeVars, doVars, raceVars, projVars>>

\* A byte of the nonce changes.
ChangeNonce(n) ==
    /\ BlobAtRest
    /\ cBlob.raw.size = "full"
    /\ n # cBlob.raw.nonce
    /\ cBlob' = [cBlob EXCEPT !.raw.nonce = n]
    /\ UNCHANGED <<cPlain, cKey, cSealed, cSealed2, dOut, cLoad>>
    /\ UNCHANGED <<pageVars, authVars, credVars, storeVars, doVars, raceVars, projVars>>

\* Byte i of the ciphertext changes.
ChangeCiphertext(i) ==
    /\ BlobAtRest
    /\ cBlob.raw.size = "full"
    /\ i \in 1..Len(cBlob.raw.ct)
    /\ cBlob' = [cBlob EXCEPT !.raw.ct[i] = Xor(@, 1)]
    /\ UNCHANGED <<cPlain, cKey, cSealed, cSealed2, dOut, cLoad>>
    /\ UNCHANGED <<pageVars, authVars, credVars, storeVars, doVars, raceVars, projVars>>

\* A byte of the tag changes, or the tag is replaced.
ChangeTag(t) ==
    /\ BlobAtRest
    /\ cBlob.raw.size = "full"
    /\ t \in OtherTags(cBlob.raw)
    /\ t # cBlob.raw.tag
    /\ cBlob' = [cBlob EXCEPT !.raw.tag = t]
    /\ UNCHANGED <<cPlain, cKey, cSealed, cSealed2, dOut, cLoad>>
    /\ UNCHANGED <<pageVars, authVars, credVars, storeVars, doVars, raceVars, projVars>>

\* The blob is cut: to fewer bytes than a nonce, or to a nonce and fewer
\* bytes than a tag.
Truncate(size) ==
    /\ BlobAtRest
    /\ cBlob.raw.size = "full"
    /\ cBlob' = [cBlob EXCEPT !.raw =
                    IF size = "short" THEN ShortRaw
                    ELSE [size |-> "notag", nonce |-> @.nonce, ct |-> <<>>, tag |-> <<>>]]
    /\ UNCHANGED <<cPlain, cKey, cSealed, cSealed2, dOut, cLoad>>
    /\ UNCHANGED <<pageVars, authVars, credVars, storeVars, doVars, raceVars, projVars>>

\* The text changes: line breaks are added to it, or characters outside the
\* base64 alphabet.
Reformat(fmt) ==
    /\ BlobAtRest
    /\ cBlob.fmt = "b64"
    /\ cBlob' = [cBlob EXCEPT !.fmt = fmt]
    /\ UNCHANGED <<cPlain, cKey, cSealed, cSealed2, dOut, cLoad>>
    /\ UNCHANGED <<pageVars, authVars, credVars, storeVars, doVars, raceVars, projVars>>

\* decrypt(encoded, key) on the blob as it is.
Decrypt(key) ==
    /\ cSealed.err = ""
    /\ ~dOut.called
    /\ ~cLoad.called
    /\ dOut' = [called |-> TRUE, key |-> key,
                plain |-> decrypt(cBlob, key).plain, err |-> decrypt(cBlob, key).err]
    /\ UNCHANGED <<cPlain, cKey, cSealed, cSealed2, cBlob, cLoad>>
    /\ UNCHANGED <<pageVars, authVars, credVars, storeVars, doVars, raceVars, projVars>>

\* LoadToken on a token file that holds the blob, on a machine with this key.
LoadBlob(key) ==
    /\ cSealed.err = ""
    /\ dOut.called => key = dOut.key
    /\ ~cLoad.called
    /\ LET r == LoadToken([exists |-> TRUE, mode |-> M0600, data |-> cBlob], key) IN
       cLoad' = [called |-> TRUE, key |-> key, token |-> r.token, err |-> r.err]
    /\ UNCHANGED <<cPlain, cKey, cSealed, cSealed2, cBlob, dOut>>
    /\ UNCHANGED <<pageVars, authVars, credVars, storeVars, doVars, raceVars, projVars>>

CryptoStep ==
    \/ \E nonce \in Nonces \cup {NoNonce} : Encrypt(nonce)
    \/ \E nonce \in Nonces \cup {NoNonce} : EncryptAgain(nonce)
    \/ \E n \in Nonces : ChangeNonce(n)
    \/ \E i \in 1..MaxPlain : ChangeCiphertext(i)
    \/ \E t \in OtherTags(cBlob.raw) : ChangeTag(t)
    \/ \E size \in {"short", "notag"} : Truncate(size)
    \/ \E fmt \in {"b64nl", "bad"} : Reformat(fmt)
    \/ \E key \in Keys : Decrypt(key)
    \/ \E key \in Keys : LoadBlob(key)

\* ------------------------------------------------------- the token store

NoSaved == [op |-> "none", tok |-> "", key |-> deriveKey("", "")]
NoLoadToken == [called |-> FALSE, token |-> "", err |-> ""]
NoClear == [called |-> FALSE, err |-> "", absent |-> FALSE]
NoLogout == [called |-> FALSE, removed |-> FALSE, err |-> "", had |-> FALSE]

\* os.Remove(c.TokenFile): the file afterwards and the error; removing a
\* file needs write and search permission on its directory.
Remove(file, dir, rmOk) ==
    IF ~dir.exists \/ ~file.exists THEN [file |-> file, err |-> "not_exist"]
    ELSE IF "uw" \notin dir.mode \/ "ux" \notin dir.mode \/ ~rmOk
      THEN [file |-> file, err |-> "remove"]
    ELSE [file |-> NoFile, err |-> ""]

\* The error ClearToken returns for the error of os.Remove ("" for nil).
clearTokenError_Strict(removeErr) ==
    IF removeErr # "" THEN "failed to remove token file" ELSE ""
clearTokenError(removeErr) ==
    IF removeErr # "" /\ removeErr # "not_exist"
      THEN "failed to remove token file" ELSE ""

\* auth.RemoveAPIKey: open the keyring and remove the entry; an absent entry
\* is reported as not removed, without an error.
RemoveAPIKey(ring, rmOk) ==
    IF ~ring.opens THEN [ring |-> ring, removed |-> FALSE, err |-> "keyring_access"]
    ELSE IF ring.item = NoItem THEN [ring |-> ring, removed |-> FALSE, err |-> ""]
    ELSE IF ~rmOk THEN [ring |-> ring, removed |-> FALSE, err |-> "keyring_remove"]
    ELSE [ring |-> [ring EXCEPT !.item = NoItem], removed |-> TRUE, err |-> ""]

\* TokenData.AccessToken of the tokens: its length in characters (the token
\* decoded from a body without access_token has the empty string).
AccessTokenLen(tok) ==
    CASE tok = "tokZero" -> 0 [] tok = "tokShort" -> 8 [] OTHER -> 40

\* The length of the prefix runWhoami prints: token.AccessToken[:20].
PrefixLen == 20

NoWhoami == [called |-> FALSE, out |-> "", token |-> ""]

\* runWhoami after config.New: the error for a failed LoadToken, else the
\* slice expression, which panics when the string is shorter than the
\* prefix.
runWhoami(loaded) ==
    IF loaded.err # "" THEN [called |-> TRUE, out |-> "not authenticated", token |-> ""]
    ELSE IF AccessTokenLen(loaded.token) < PrefixLen
      THEN [called |-> TRUE, out |-> "panic", token |-> loaded.token]
    ELSE [called |-> TRUE, out |-> "printed", token |-> loaded.token]

\* The machine of the model; no command of the token store has run.
StoreIdle ==
    /\ hostname = "h1"
    /\ homeDir = "/home/a"
    /\ whoami = NoWhoami
    /\ stSaved = NoSaved
    /\ stLoad = NoLoadToken
    /\ stClear = NoClear
    /\ logout = NoLogout

\* The machine as a command of the token store finds it.
StoreStart ==
    /\ hostname \in Hosts
    /\ homeDir = "/home/a"
    /\ whoami = NoWhoami
    /\ stSaved = NoSaved
    /\ stLoad = NoLoadToken
    /\ stClear = NoClear
    /\ logout = NoLogout

\* The tokens `linear auth` may obtain and store.
StoreTokens == {"tokNew", "tokZero"}

\* A successful `linear auth` ends in Config.SaveToken(token): config.New,
\* then marshal, encrypt under the key of the machine, WriteFile.
CallSaveToken(tok, nonce, ioOk) ==
    /\ configDir' = MkdirAll(configDir, M0700, umask)
    /\ LET r == saveToken(tokenFile, configDir', umask, tok, MachineKey, nonce, ioOk) IN
          /\ tokenFile' = r.file
          /\ stSaved' = IF r.err = ""
                          THEN [op |-> "save", tok |-> tok, key |-> MachineKey]
                          ELSE [op |-> "failed", tok |-> "", key |-> MachineKey]
    /\ stLoad' = NoLoadToken
    /\ whoami' = NoWhoami
    /\ UNCHANGED <<hostname, homeDir, stClear, logout>>
    /\ UNCHANGED <<aPc, codeVerifier, expectedState, authURL, listening, serverOpen,
                   timerFired, resultChan, handlers, result, branch, authCode, aErr,
                   aErrDetail, tokenReq, tokenResp, token, exchanges, saves, saveOk,
                   umask, fileBefore>>
    /\ UNCHANGED <<pageVars, credVars, cryptoVars, doVars, raceVars, projVars>>

\* runLogout: config.New, then Config.ClearToken.
ClearToken(rmOk) ==
    /\ configDir' = MkdirAll(configDir, M0700, umask)
    /\ LET r == Remove(tokenFile, configDir', rmOk)
           e == clearTokenError(r.err) IN
          /\ tokenFile' = r.file
          /\ stClear' = [called |-> TRUE, err |-> e, absent |-> ~tokenFile.exists]
          /\ stSaved' = IF e = ""
                          THEN [op |-> "clear", tok |-> "", key |-> MachineKey]
                          ELSE [op |-> "failed", tok |-> "", key |-> MachineKey]
    /\ stLoad' = NoLoadToken
    /\ whoami' = NoWhoami
    /\ UNCHANGED <<hostname, homeDir, logout>>
    /\ UNCHANGED <<aPc, codeVerifier, expectedState, authURL, listening, serverOpen,
                   timerFired, resultChan, handlers, result, branch, authCode, aErr,
                   aErrDetail, tokenReq, tokenResp, token, exchanges, saves, saveOk,
                   umask, fileBefore>>
    /\ UNCHANGED <<pageVars, credVars, cryptoVars, doVars, raceVars, projVars>>

\* runWhoami and api.NewClient: config.New, then Config.LoadToken.
CallLoadToken ==
    /\ configDir' = MkdirAll(configDir, M0700, umask)
    /\ LET r == LoadToken(tokenFile, MachineKey) IN
       stLoad' = [called |-> TRUE, token |-> r.token, err |-> r.err]
    /\ whoami' = NoWhoami
    /\ UNCHANGED <<hostname, homeDir, stSaved, stClear, logout>>
    /\ UNCHANGED <<aPc, codeVerifier, expectedState, authURL, listening, serverOpen,
                   timerFired, resultChan, handlers, result, branch, authCode, aErr,
                   aErrDetail, tokenReq, tokenResp, token, exchanges, saves, saveOk,
                   tokenFile, umask, fileBefore>>
    /\ UNCHANGED <<pageVars, credVars, cryptoVars, doVars, raceVars, projVars>>

\* `linear auth whoami`: config.New, Config.LoadToken, print the prefix.
RunWhoami ==
    /\ configDir' = MkdirAll(configDir, M0700, umask)
    /\ LET r == LoadToken(tokenFile, MachineKey) IN
          /\ stLoad' = [called |-> TRUE, token |-> r.token, err |-> r.err]
          /\ whoami' = runWhoami(r)
    /\ UNCHANGED <<hostname, homeDir, stSaved, stClear, logout>>
    /\ UNCHANGED <<aPc, codeVerifier, expectedState, authURL, listening, serverOpen,
                   timerFired, resultChan, handlers, result, branch, authCode, aErr,
                   aErrDetail, tokenReq, tokenResp, token, exchanges, saves, saveOk,
                   tokenFile, umask, fileBefore>>
    /\ UNCHANGED <<pageVars, credVars, cryptoVars, doVars, raceVars, projVars>>

\* The machine gets another host name between two commands.
HostRenamed(h) ==
    /\ h # hostname
    /\ hostname' = h
    /\ stLoad' = NoLoadToken
    /\ whoami' = NoWhoami
    /\ UNCHANGED <<homeDir, stSaved, stClear, logout>>
    /\ UNCHANGED <<pageVars, authVars, credVars, cryptoVars, doVars, raceVars, projVars>>

\* authLogoutCmd: removeAPIKey, whose error is returned wrapped.
AuthLogout(rmOk) ==
    /\ LET r == RemoveAPIKey(keyring, rmOk) IN
          /\ keyring' = r.ring
          /\ logout' = [called |-> TRUE, removed |-> r.removed,
                        err |-> IF r.err # "" THEN "error removing API key" ELSE "",
                        had |-> keyring.item # NoItem]
    /\ UNCHANGED <<hostname, homeDir, whoami, stSaved, stLoad, stClear>>
    /\ UNCHANGED <<envKey, gk, gkRing, lastSave, apiClient, savedKey, authStatus>>
    /\ UNCHANGED <<pageVars, authVars, cryptoVars, doVars, raceVars, projVars>>

StoreStep ==
    \/ \E tok \in StoreTokens, nonce \in Nonces \cup {NoNonce}, ioOk \in BOOLEAN :
          CallSaveToken(tok, nonce, ioOk)
    \/ \E rmOk \in BOOLEAN : ClearToken(rmOk)
    \/ CallLoadToken
    \/ RunWhoami
    \/ \E h \in Hosts : HostRenamed(h)
    \/ \E rmOk \in BOOLEAN : AuthLogout(rmOk)

\* ------------------------------------------------- the GraphQL transport

\* Longest response body that is not JSON, in pieces of text.
MaxBody == 2
\* Requests one command sends.
MaxCalls == 2
MaxNodes == 2

\* A piece of response text: filler, or the API key the server was sent.
Pieces == {"x", "k1"}

\* The message of a GraphQL error.
Messages == {"m1", "k1"}

\* The data of a GraphQL response: none, an object of the type of result, or
\* JSON of another type.
DataValues == {"", "d1", "bad"}

\* A body that is not JSON, and a body that is a graphQLResponse, with the
\* text it is written as.
TextBodies ==
    {[json |-> FALSE, errors |-> <<>>, data |-> "", text |-> t] :
        t \in UNION {[1..n -> Pieces] : n \in 0..MaxBody}}
JsonBodies ==
    {[json |-> TRUE, errors |-> e, data |-> d,
      text |-> e \o (IF d = "" THEN <<>> ELSE <<d>>)] :
        e \in UNION {[1..n -> Messages] : n \in 0..2}, d \in DataValues}

\* What the API can answer: no answer at all, or a status and a body.
HTTPStatuses == {200, 201, 401}
NoBody == [json |-> FALSE, errors |-> <<>>, data |-> "", text |-> <<>>]
DoResponses ==
    [transport : {"ok"}, status : HTTPStatuses, body : TextBodies \cup JsonBodies]
    \cup {[transport |-> "failed", status |-> 0, body |-> NoBody]}

\* Do is called with a context that is already done: nothing is sent.
CtxDoneResponse == [transport |-> "ctx", status |-> 0, body |-> NoBody]

NoDoResponse == [transport |-> "", status |-> 0, body |-> NoBody]
NoDo == [called |-> FALSE, err |-> "", text |-> <<>>, result |-> "untouched"]
NoTeam == [called |-> FALSE, err |-> "", text |-> <<>>, result |-> "untouched"]
NotBuilt == [called |-> FALSE, built |-> FALSE, apiKey |-> "", err |-> ""]

\* client.NewClient: the client holds the key GetAPIKey returned; its error
\* is returned and no client is built.
newClient(r) ==
    IF r.err # ""
      THEN [called |-> TRUE, built |-> FALSE, apiKey |-> "", err |-> r.err]
      ELSE [called |-> TRUE, built |-> TRUE, apiKey |-> r.key, err |-> ""]

\* Client.Do after the request was sent: the error it returns with the text
\* the error carries, and what it wrote to result.
doResult(resp) ==
    IF resp.transport # "ok"
      THEN [called |-> TRUE, err |-> "request failed", text |-> <<>>, result |-> "untouched"]
    ELSE IF resp.status # StatusOK
      THEN [called |-> TRUE, err |-> "unexpected status", text |-> resp.body.text,
            result |-> "untouched"]
    ELSE IF ~resp.body.json
      THEN [called |-> TRUE, err |-> "failed to decode response", text |-> <<>>,
            result |-> "untouched"]
    ELSE IF Len(resp.body.errors) > 0
      THEN [called |-> TRUE, err |-> "graphql", text |-> <<resp.body.errors[1]>>,
            result |-> "untouched"]
    ELSE IF resp.body.data = "bad"
      THEN [called |-> TRUE, err |-> "failed to unmarshal data", text |-> <<>>,
            result |-> "partial"]
    ELSE [called |-> TRUE, err |-> "", text |-> <<>>,
          result |-> IF resp.body.data = "" THEN "untouched" ELSE resp.body.data]

\* TokenData.AccessToken as a header value.
AccessToken(tok) == IF AccessTokenLen(tok) = 0 THEN "" ELSE tok

\* api.Client.Query after the request was sent: the body is read whole, then
\* the status, the JSON, the errors and the data are looked at in this order.
queryResult(resp) ==
    IF resp.transport # "ok"
      THEN [called |-> TRUE, err |-> "request failed", text |-> <<>>, result |-> "untouched"]
    ELSE IF resp.status # StatusOK
      THEN [called |-> TRUE, err |-> "API error", text |-> resp.body.text,
            result |-> "untouched"]
    ELSE IF ~resp.body.json
      THEN [called |-> TRUE, err |-> "failed to parse response", text |-> <<>>,
            result |-> "untouched"]
    ELSE IF Len(resp.body.errors) > 0
      THEN [called |-> TRUE, err |-> "GraphQL error", text |-> <<resp.body.errors[1]>>,
            result |-> "untouched"]
    ELSE IF resp.body.data = ""
      THEN [called |-> TRUE, err |-> "failed to unmarshal data", text |-> <<>>,
            result |-> "untouched"]
    ELSE IF resp.body.data = "bad"
      THEN [called |-> TRUE, err |-> "failed to unmarshal data", text |-> <<>>,
            result |-> "partial"]
    ELSE [called |-> TRUE, err |-> "", text |-> <<>>, result |-> resp.body.data]

\* No client is built.
DoIdle ==
    /\ client = NotBuilt
    /\ httpLog = <<>>
    /\ doResp = NoDoResponse
    /\ doOut = NoDo
    /\ team = NoTeam

\* A command builds its client.
NewClient ==
    /\ ~client.called
    /\ ~team.called
    /\ client' = newClient(GetAPIKey(envKey, keyring))
    /\ UNCHANGED <<httpLog, doResp, doOut, team>>
    /\ UNCHANGED <<pageVars, authVars, credVars, cryptoVars, storeVars, raceVars, projVars>>

Do_RetryOnFailure(resp, hops) ==
    /\ client.built
    /\ Len(httpLog) + Len(hops) < MaxCalls
    /\ resp = CtxDoneResponse => hops = <<>>
    /\ httpLog' = IF resp = CtxDoneResponse
                    THEN httpLog
                    ELSE IF resp.transport = "ok"
                    THEN httpLog \o Requests(client.apiKey, hops)
                    ELSE httpLog \o Requests(client.apiKey, hops)
                                 \o Requests(client.apiKey, <<>>)
    /\ doResp' = resp
    /\ doOut' = doResult(resp)
    /\ UNCHANGED <<client, team>>
    /\ UNCHANGED <<pageVars, authVars, credVars, cryptoVars, storeVars, raceVars, projVars>>

\* Client.Do: the request with the key of the client as its Authorization
\* header, the requests by which the http.Client follows the redirect
\* answers, and the handling of the answer the http.Client returns.  With a
\* context that is done when Do is called the http.Client returns the error
\* of the context and sends nothing.
Do(resp, hops) ==
    /\ client.built
    /\ Len(httpLog) + Len(hops) < MaxCalls
    /\ resp = CtxDoneResponse => hops = <<>>
    /\ httpLog' = IF resp = CtxDoneResponse
                    THEN httpLog
                    ELSE httpLog \o Requests(client.apiKey, hops)
    /\ doResp' = resp
    /\ doOut' = doResult(resp)
    /\ UNCHANGED <<client, team>>
    /\ UNCHANGED <<pageVars, authVars, credVars, cryptoVars, storeVars, raceVars, projVars>>

\* `linear team list`: config.New makes sure of the configuration directory,
\* api.NewClient takes the access token of the token
\* file, whose failure ends the command before any request; ListTeams then
\* sends its query with that token as the Authorization header.
RunTeamList(resp, hops) ==
    /\ ~team.called
    /\ ~client.called
    /\ Len(hops) < MaxCalls
    /\ configDir' = MkdirAll(configDir, M0700, umask)
    /\ LET t == LoadToken(tokenFile, MachineKey) IN
         /\ apiClient' = [called |-> TRUE, token |-> t.token, err |-> t.err]
         /\ IF t.err # ""
              THEN /\ team' = [called |-> TRUE, err |-> "authentication required",
                               text |-> <<>>, result |-> "untouched"]
                   /\ UNCHANGED httpLog
              ELSE /\ team' = queryResult(resp)
                   /\ httpLog' = httpLog \o Requests(AccessToken(t.token), hops)
    /\ UNCHANGED <<client, doResp, doOut>>
    /\ UNCHANGED <<envKey, keyring, gk, gkRing, lastSave, savedKey, authStatus>>
    /\ UNCHANGED <<aPc, codeVerifier, expectedState, authURL, listening, serverOpen,
                   timerFired, resultChan, handlers, result, branch, authCode, aErr,
                   aErrDetail, tokenReq, tokenResp, token, exchanges, saves, saveOk,
                   tokenFile, umask, fileBefore>>
    /\ UNCHANGED <<pageVars, cryptoVars, storeVars, raceVars, projVars>>

DoStep ==
    \/ NewClient
    \/ /\ client.built
       /\ \E hops \in {h \in HopChains : Len(httpLog) + Len(h) < MaxCalls} :
             \E resp \in DoResponses \cup {CtxDoneResponse} : Do(resp, hops)
    \/ /\ ~team.called /\ ~client.called
       /\ \E hops \in {h \in HopChains : Len(h) < MaxCalls} :
             \E resp \in DoResponses : RunTeamList(resp, hops)

\* ------------------------------------------------- concurrent SaveToken

\* Two invocations of the CLI on the same machine.
Writers == {1, 2}

\* The tokens the two invocations obtained; their JSON differs in length.
RaceTokens == {"tokNew", "tokShort"}

NoWriter == [pc |-> "off", tok |-> "", nonce |-> ""]

\* The blob invocation w hands to os.WriteFile, and the length of its text:
\* nonce, ciphertext, tag.
BlobOf(w) == EncryptedBlob(wr[w].tok, MachineKey, wr[w].nonce)
TextLen(w) == Len(BlobOf(w).raw.ct) + 2
FullText(w) == [k \in 1..TextLen(w) |-> <<w, k>>]

\* write(fd, data) at offset 0 of a file that holds old: the bytes of data
\* replace the first ones, what lies beyond them stays.
Overlay(old, data) ==
    [k \in 1..(IF Len(old) > Len(data) THEN Len(old) ELSE Len(data)) |->
        IF k <= Len(data) THEN data[k] ELSE old[k]]

\* The value of a character that is read as ciphertext: the ciphertext byte
\* it was written as, or a byte of a nonce or tag (no ciphertext byte).
TagByte == 2
CtByte(u) ==
    IF u[2] >= 2 /\ u[2] < TextLen(u[1]) THEN BlobOf(u[1]).raw.ct[u[2] - 1] ELSE TagByte

\* os.ReadFile and base64 decoding of the text on disk: the first
\* character is read as nonce, the last as tag, the rest as ciphertext.
ReadText(text) ==
    IF Len(text) < 2 THEN EmptyBlob
    ELSE StdEncode([size |-> "full",
                    nonce |-> BlobOf(text[1][1]).raw.nonce,
                    ct |-> [j \in 1..(Len(text) - 2) |-> CtByte(text[j + 1])],
                    tag |-> IF text[Len(text)][2] = TextLen(text[Len(text)][1])
                              THEN BlobOf(text[Len(text)][1]).raw.tag
                              ELSE FlippedTag])

\* No invocation is saving a token.
RaceIdle ==
    /\ wr = [w \in Writers |-> NoWriter]
    /\ disk = <<>>
    /\ rcLoad = NoLoadToken

\* Both invocations have their token and are about to call SaveToken; the
\* token file does not exist or is empty.
RaceStart ==
    /\ wr \in [Writers -> [pc : {"open"}, tok : RaceTokens, nonce : Nonces]]
    /\ disk = <<>>
    /\ rcLoad = NoLoadToken

\* SaveToken up to the open in os.WriteFile: O_WRONLY|O_CREATE|O_TRUNC
\* empties the file.
OpenTruncate(w) ==
    /\ wr[w].pc = "open"
    /\ disk' = <<>>
    /\ wr' = [wr EXCEPT ![w].pc = "write"]
    /\ UNCHANGED rcLoad
    /\ UNCHANGED <<pageVars, authVars, credVars, cryptoVars, storeVars, doVars, projVars>>

\* The write and close of os.WriteFile: the blob goes to offset 0 of the
\* invocation's own file description.
WriteBlob(w) ==
    /\ wr[w].pc = "write"
    /\ disk' = Overlay(disk, FullText(w))
    /\ wr' = [wr EXCEPT ![w].pc = "done"]
    /\ UNCHANGED rcLoad
    /\ UNCHANGED <<pageVars, authVars, credVars, cryptoVars, storeVars, doVars, projVars>>

\* A later command calls LoadToken.
LoadAfterRace ==
    /\ \A w \in Writers : wr[w].pc = "done"
    /\ ~rcLoad.called
    /\ LET r == LoadToken([exists |-> TRUE, mode |-> M0600, data |-> ReadText(disk)],
                          MachineKey) IN
       rcLoad' = [called |-> TRUE, token |-> r.token, err |-> r.err]
    /\ UNCHANGED <<wr, disk>>
    /\ UNCHANGED <<pageVars, authVars, credVars, cryptoVars, storeVars, doVars, projVars>>

RaceStep ==
    \/ \E w \in Writers : OpenTruncate(w)
    \/ \E w \in Writers : WriteBlob(w)
    \/ LoadAfterRace

\* ---------------------------------------------------- project resolution

\* Project names and identifiers: one or two letters, in either case.
Letters == {"m", "M", "a"}
Names == [1..1 -> Letters] \cup [1..2 -> Letters]

\* strings.ToLower, letter by letter.
ToLower(name) == [k \in 1..Len(name) |-> IF name[k] = "M" THEN "m" ELSE name[k]]
EqualFold(a, b) == ToLower(a) = ToLower(b)

\* The server's containsIgnoreCase filter on the name.
ContainsIgnoreCase(name, part) ==
    \E i \in 0..(Len(name) - Len(part)) :
        \A k \in 1..Len(part) : ToLower(name)[i + k] = ToLower(part)[k]

\* isUUID: 36 characters, dashes at the indices 8, 13, 18 and 23 (counted
\* from 0) and hexadecimal digits elsewhere.
HexDigits ==
    {"0", "1", "2", "3", "4", "5", "6", "7", "8", "9",
     "a", "b", "c", "d", "e", "f", "A", "B", "C", "D", "E", "F"}
isUUID(s) ==
    /\ Len(s) = 36
    /\ \A i \in 1..36 :
          IF (i - 1) \in {8, 13, 18, 23} THEN s[i] = "-" ELSE s[i] \in HexDigits

\* Identifiers of 36 characters: the id of a project in lower and in upper
\* case, the same with a letter that is no hexadecimal digit, and with a
\* digit where a dash belongs.
LongIdentifiers ==
    {<<"4", "e", "2", "6", "9", "6", "1", "e", "-", "9", "6", "7",
     "f", "-", "4", "5", "8", "f", "-", "8", "f", "a", "2", "-",
     "4", "2", "4", "0", "0", "3", "5", "a", "a", "1", "7", "8">>,
     <<"4", "E", "2", "6", "9", "6", "1", "E", "-", "9", "6", "7",
     "F", "-", "4", "5", "8", "F", "-", "8", "F", "A", "2", "-",
     "4", "2", "4", "0", "0", "3", "5", "A", "A", "1", "7", "8">>,
     <<"m", "e", "2", "6", "9", "6", "1", "e", "-", "9", "6", "7",
     "f", "-", "4", "5", "8", "f", "-", "8", "f", "a", "2", "-",
     "4", "2", "4", "0", "0", "3", "5", "a", "a", "1", "7", "8">>,
     <<"4", "e", "2", "6", "9", "6", "1", "e", "0", "9", "6", "7",
     "f", "-", "4", "5", "8", "f", "-", "8", "f", "a", "2", "-",
     "4", "2", "4", "0", "0", "3", "5", "a", "a", "1", "7", "8">>}

\* What --project can be given: a name or an identifier of 36 characters.
Identifiers == Names \cup LongIdentifiers

\* The answers the server may give to the query by id: null or a project.
NullProject == [found |-> FALSE, name |-> <<>>]
ProjectsByID == {NullProject} \cup {[found |-> TRUE, name |-> nm] : nm \in Names}

\* The answers the server may give to the name query: projects whose names
\* contain the identifier, in the order the server chooses.
ProjectAnswers(identifier) ==
    UNION {[1..n -> {nm \in Names : ContainsIgnoreCase(nm, identifier)}] : n \in 0..MaxNodes}

NoProject == [called |-> FALSE, err |-> "", name |-> <<>>, index |-> 0]

\* GetProjectByIdentifier for a name, after Do returned out: the error of Do,
\* else the first node of the answer, or "project not found" when it holds
\* none (an answer without data leaves resp as it was, without nodes).
getProjectByName(nodes, out) ==
    IF out.err # "" THEN [called |-> TRUE, err |-> "do", name |-> <<>>, index |-> 0]
    ELSE IF out.result = "untouched" \/ Len(nodes) = 0
      THEN [called |-> TRUE, err |-> "project not found", name |-> <<>>, index |-> 0]
    ELSE [called |-> TRUE, err |-> "", name |-> nodes[1], index |-> 1]

\* GetProjectByIdentifier for a UUID, after Do returned out: the error of Do,
\* else the project of the answer, or "project not found" when the answer
\* holds null or no data.
getProjectByID(project, out) ==
    IF out.err # "" THEN [called |-> TRUE, err |-> "do", name |-> <<>>, index |-> 0]
    ELSE IF out.result = "untouched" \/ ~project.found
      THEN [called |-> TRUE, err |-> "project not found", name |-> <<>>, index |-> 0]
    ELSE [called |-> TRUE, err |-> "", name |-> project.name, index |-> 0]

\* No project is resolved.
ProjIdle ==
    /\ pjIdent = <<>>
    /\ pjNodes = <<>>
    /\ pjProject = NullProject
    /\ pjOut = NoProject

\* A command is given --project with a name or an id; the workspace holds
\* the projects the server will answer the query of the command with.
ProjStart ==
    /\ pjIdent \in Identifiers
    /\ IF isUUID(pjIdent)
         THEN pjProject \in ProjectsByID /\ pjNodes = <<>>
         ELSE pjNodes \in ProjectAnswers(pjIdent) /\ pjProject = NullProject
    /\ pjOut = NoProject

\* GetProjectByIdentifier on the client of the command: the query by id for
\* a UUID, else the name query, sent with one call of Do (its request, the
\* requests that follow redirect answers, the handling of the answer); the
\* data of an answer that Do decodes are the projects of the workspace.
GetProjectByIdentifier(resp, hops) ==
    /\ client.built
    /\ ~pjOut.called
    /\ Len(httpLog) + Len(hops) < MaxCalls
    /\ resp = CtxDoneResponse => hops = <<>>
    /\ httpLog' = IF resp = CtxDoneResponse
                    THEN httpLog
                    ELSE httpLog \o Requests(client.apiKey, hops)
    /\ doResp' = resp
    /\ doOut' = doResult(resp)
    /\ pjOut' = IF isUUID(pjIdent)
                  THEN getProjectByID(pjProject, doResult(resp))
                  ELSE getProjectByName(pjNodes, doResult(resp))
    /\ UNCHANGED <<client, team>>
    /\ UNCHANGED <<pjIdent, pjNodes, pjProject>>
    /\ UNCHANGED <<pageVars, authVars, credVars, cryptoVars, storeVars, raceVars>>

\* The command builds its client and resolves --project.
ProjStep ==
    \/ NewClient
    \/ /\ client.built /\ ~pjOut.called
       /\ \E hops \in {h \in HopChains : Len(httpLog) + Len(h) < MaxCalls} :
             \E resp \in DoResponses \cup {CtxDoneResponse} :
                GetProjectByIdentifier(resp, hops)

\* ------------------------------------------------- pagination: actions

\* issueListCmd.Run with --all and neither --team nor --project (their
\* lookups come before the list; the one of --project is in the project
\* group): client.NewClient, whose failure ends the command with status 1
\* before any request; otherwise the context gets its ten-minute deadline and
\* ListAllIssues starts with an empty cursor.
RunIssueListAll ==
    /\ pgPc = "idle"
    /\ client' = newClient(GetAPIKey(envKey, keyring))
    /\ fetchAll' = TRUE
    /\ IF client'.built
         THEN pgPc' = "send" /\ UNCHANGED pgErr
         ELSE pgPc' = "error" /\ pgErr' = "client"
    /\ UNCHANGED <<script, after, allIssues, reqLog, ctxExpired, pgResult, lastPage>>
    /\ UNCHANGED <<httpLog, doResp, doOut, team>>
    /\ UNCHANGED <<authVars, credVars, cryptoVars, storeVars, raceVars, projVars>>

\* issueListCmd.Run without --all, --team and --project: client.NewClient,
\* then one ListIssues under a thirty-second deadline.
RunIssueList ==
    /\ pgPc = "idle"
    /\ client' = newClient(GetAPIKey(envKey, keyring))
    /\ fetchAll' = FALSE
    /\ IF client'.built
         THEN pgPc' = "send" /\ UNCHANGED pgErr
         ELSE pgPc' = "error" /\ pgErr' = "client"
    /\ UNCHANGED <<script, after, allIssues, reqLog, ctxExpired, pgResult, lastPage>>
    /\ UNCHANGED <<httpLog, doResp, doOut, team>>
    /\ UNCHANGED <<authVars, credVars, cryptoVars, storeVars, raceVars, projVars>>

\* The deadline of the command's context passes while the fetch is running.
DeadlineExpires ==
    /\ pgPc \in {"send", "wait"}
    /\ ~ctxExpired
    /\ ctxExpired' = TRUE
    /\ UNCHANGED <<script, fetchAll, pgPc, after, allIssues, reqLog, pgErr, pgResult,
                   lastPage>>
    /\ UNCHANGED <<authVars, credVars, cryptoVars, storeVars, doVars, raceVars, projVars>>

\* The redirect answers to the requests of the Do call in progress: those to
\* the requests from the last one that follows no redirect.
CallStart == CHOOSE i \in 1..Len(httpLog) :
                /\ httpLog[i].follows = 0
                /\ \A j \in (i + 1)..Len(httpLog) : httpLog[j].follows # 0
HopsSoFar == [j \in 1..(Len(httpLog) - CallStart + 1) |-> ServerResponse(CallStart + j - 1).hop]

\* ListIssues -> Do: the request of one loop iteration goes out, unless the
\* context is done, in which case Do fails without sending and ListAllIssues
\* returns nil, err.
SendRequest ==
    /\ pgPc = "send"
    /\ IF CtxDone
         THEN /\ pgPc' = "error"
              /\ pgErr' = "ctx"
              /\ pgResult' = <<>>
              /\ UNCHANGED <<reqLog, httpLog>>
         ELSE /\ Len(reqLog) < MaxRequests
              /\ reqLog' = Append(reqLog, after)
              /\ httpLog' = httpLog \o Requests(client.apiKey, <<>>)
              /\ pgPc' = "wait"
              /\ UNCHANGED <<pgErr, pgResult>>
    /\ UNCHANGED <<script, fetchAll, after, allIssues, ctxExpired, lastPage>>
    /\ UNCHANGED <<client, doResp, doOut, team>>
    /\ UNCHANGED <<authVars, credVars, cryptoVars, storeVars, raceVars, projVars>>

\* The rest of the iteration.  A redirect answer is followed by the
\* http.Client with a further request and Do goes on waiting.  Otherwise Do
\* returns, the nodes are appended, and the loop ends on hasNextPage = false
\* or goes on with the end cursor.  Without --all the nodes of the one page
\* are the result.
ReceiveResponse ==
    /\ pgPc = "wait"
    /\ LET resp == ServerResponse(Len(httpLog)) IN
       IF CtxDone
         THEN /\ pgPc' = "error"
              /\ pgErr' = "ctx"
              /\ pgResult' = <<>>
              /\ UNCHANGED <<after, allIssues, lastPage, httpLog>>
         ELSE IF resp.kind = "redirect"
         THEN /\ httpLog' = Append(httpLog,
                                   Requests(client.apiKey, HopsSoFar)[Len(HopsSoFar) + 1])
              /\ UNCHANGED <<pgPc, pgErr, pgResult, after, allIssues, lastPage>>
         ELSE IF resp.kind = "fail"
         THEN /\ pgPc' = "error"
              /\ pgErr' = "do"
              /\ pgResult' = <<>>
              /\ UNCHANGED <<after, allIssues, lastPage, httpLog>>
         ELSE IF ~fetchAll
         THEN /\ pgPc' = "done"
              /\ pgResult' = resp.nodes
              /\ UNCHANGED <<after, allIssues, lastPage, pgErr, httpLog>>
         ELSE /\ allIssues' = AppendNodes(allIssues, resp.nodes)
              /\ lastPage' = [kind |-> "page", nodes |-> resp.nodes,
                              hasNextPage |-> resp.hasNextPage,
                              endCursor |-> resp.endCursor, asked |-> after]
              /\ IF ~resp.hasNextPage
                   THEN /\ pgPc' = "done"
                        /\ pgResult' = allIssues'
                        /\ UNCHANGED after
                   ELSE /\ after' = NextAfter(after, resp)
                        /\ pgPc' = "send"
                        /\ UNCHANGED pgResult
              /\ UNCHANGED <<pgErr, httpLog>>
    /\ UNCHANGED <<script, fetchAll, reqLog, ctxExpired>>
    /\ UNCHANGED <<client, doResp, doOut, team>>
    /\ UNCHANGED <<authVars, credVars, cryptoVars, storeVars, raceVars, projVars>>

PageStep ==
    \/ RunIssueListAll
    \/ RunIssueList
    \/ DeadlineExpires
    \/ SendRequest
    \/ ReceiveResponse

\* ------------------------------------------------------- specifications

\* The token file as `team list` finds it: none, the session of this machine,
\* a session whose access token is empty, or the session of another machine.
SessionMachines ==
    {[dir |-> NoDir, file |-> NoFile]}
    \cup {[dir |-> [exists |-> TRUE, mode |-> M0700],
           file |-> [exists |-> TRUE, mode |-> M0600, data |-> EncryptedBlob(f[1], f[2], "n1")]] :
            f \in {<<"tokNew", deriveKey("h1", "/home/a")>>,
                   <<"tokZero", deriveKey("h1", "/home/a")>>,
                   <<"tokNew", deriveKey("h2", "/home/a")>>}}

\* The environment, the keyring and the token file as the command finds
\* them: any keyring on a machine without a session, any session on a machine
\* whose keyring is empty.
InitDo ==
    /\ DoIdle /\ RaceIdle /\ ProjIdle
    /\ PageIdle
    /\ AuthFresh
    /\ umask = Umask022
    /\ \E m \in SessionMachines : configDir = m.dir /\ tokenFile = m.file
    /\ fileBefore = tokenFile
    /\ CryptoIdle
    /\ StoreIdle
    /\ envKey \in {"", "k1"}
    /\ keyring \in [opens : BOOLEAN, reads : BOOLEAN, item : {NoItem, "k2"}]
    /\ tokenFile = NoFile \/ keyring = [opens |-> TRUE, reads |-> TRUE, item |-> NoItem]
    /\ gk = NotCalled
    /\ gkRing = keyring
    /\ lastSave = "none"
    /\ apiClient = NoClient
    /\ savedKey = ""
    /\ authStatus = NoStatus

SpecDo == InitDo /\ [][DoStep]_vars


\* The token file is whatever earlier runs left; the keyring holds a key, is
\* empty or cannot be opened.
InitStore ==
    /\ StoreStart
    /\ DoIdle /\ RaceIdle /\ ProjIdle
    /\ PageIdle
    /\ CryptoIdle
    /\ AuthFresh
    /\ umask = Umask022
    /\ \E m \in PriorMachines : configDir = m.dir /\ tokenFile = m.file
    /\ fileBefore = tokenFile
    /\ envKey = ""
    /\ keyring \in {[opens |-> TRUE, reads |-> TRUE, item |-> "k1"],
                    [opens |-> TRUE, reads |-> TRUE, item |-> NoItem],
                    [opens |-> FALSE, reads |-> TRUE, item |-> "k1"]}
    /\ gk = NotCalled
    /\ gkRing = keyring
    /\ lastSave = "none"
    /\ apiClient = NoClient
    /\ savedKey = ""
    /\ authStatus = NoStatus

SpecStore == InitStore /\ [][StoreStep]_vars


InitAuth == AuthStart /\ PageIdle /\ CredIdle /\ CryptoIdle /\ StoreIdle /\ DoIdle /\ RaceIdle /\ ProjIdle

SpecAuth == InitAuth /\ [][AuthStep]_vars

\* The command runs with or without LINEAR_API_KEY; the keyring is empty.
InitPage ==
    /\ PageStart /\ AuthIdle /\ CryptoIdle /\ StoreIdle /\ DoIdle /\ RaceIdle /\ ProjIdle
    /\ envKey \in {"", "k1"}
    /\ keyring = [opens |-> TRUE, reads |-> TRUE, item |-> NoItem]
    /\ gk = NotCalled
    /\ gkRing = keyring
    /\ lastSave = "none"
    /\ apiClient = NoClient
    /\ savedKey = ""
    /\ authStatus = NoStatus

SpecPage == InitPage /\ [][PageStep]_vars

\* The stored session is whatever earlier runs left in the token file.
InitCred ==
    /\ CredStart
    /\ PageIdle
    /\ AuthFresh
    /\ umask = Umask022
    /\ \E m \in PriorMachines :
          m.dir.exists /\ m.dir.mode = M0700 /\ configDir = m.dir /\ tokenFile = m.file
    /\ fileBefore = tokenFile
    /\ CryptoIdle
    /\ StoreIdle
    /\ DoIdle /\ RaceIdle /\ ProjIdle

SpecCred == InitCred /\ [][CredStep]_vars

InitCrypto == CryptoStart /\ PageIdle /\ AuthIdle /\ CredIdle /\ StoreIdle /\ DoIdle /\ RaceIdle /\ ProjIdle

SpecCrypto == InitCrypto /\ [][CryptoStep]_vars

\* The command keeps running and real time passes.
SpecPageFair ==
    /\ SpecPage
    /\ WF_vars(RunIssueListAll)
    /\ WF_vars(RunIssueList)
    /\ WF_vars(DeadlineExpires)
    /\ WF_vars(SendRequest)
    /\ WF_vars(ReceiveResponse)

\* One invocation of the CLI runs one command: `issue list --all`, `auth` on
\* a machine without a configuration directory, or a command that builds a
\* client and calls Do.  The OAuth flow reads neither the environment
\* variable nor the keyring, so it is run on the machine that has neither.
InitCli ==
    \/ InitPage
    \/ InitAuth /\ configDir = NoDir
    \/ InitDo

CliStep ==
    \/ PageStep
    \/ pgPc = "off" /\ ~client.called /\ ~team.called /\ fileBefore = NoFile
          /\ envKey = "" /\ keyring.item = NoItem /\ keyring.opens /\ keyring.reads
          /\ AuthStep
    \/ pgPc = "off" /\ aPc = "idle" /\ DoStep

SpecCli == InitCli /\ [][CliStep]_vars

InitRace ==
    /\ RaceStart /\ ProjIdle /\ PageIdle /\ AuthIdle /\ CredIdle /\ CryptoIdle /\ StoreIdle /\ DoIdle

SpecRace == InitRace /\ [][RaceStep]_vars

InitProj ==
    /\ ProjStart /\ PageIdle /\ AuthIdle /\ CryptoIdle /\ StoreIdle
    /\ DoIdle /\ RaceIdle
    /\ envKey \in {"", "k1"}
    /\ keyring = [opens |-> TRUE, reads |-> TRUE, item |-> NoItem]
    /\ gk = NotCalled
    /\ gkRing = keyring
    /\ lastSave = "none"
    /\ apiClient = NoClient
    /\ savedKey = ""
    /\ authStatus = NoStatus

SpecProj == InitProj /\ [][ProjStep]_vars

\* ------------------------------------------------- pagination: the claims

\* The last page processed claims more pages with an end cursor that is empty
\* or is the cursor it was asked with.
StalledPage ==
    /\ lastPage.kind = "page"
    /\ lastPage.hasNextPage
    /\ (lastPage.endCursor = "" \/ lastPage.endCursor = lastPage.asked)

\* C1: during a fetch-all, a page stops the operation with a pagination error,
\* with no further request, exactly when it has hasNextPage = true and an end
\* cursor that is empty or equal to the cursor of the request that produced
\* it; a page with hasNextPage = false never raises that error.
C1_PaginationGuard ==
    (fetchAll /\ lastPage.kind = "page") =>
        (StalledPage <=> (pgPc = "error" /\ pgErr = "pagination"))

\* C2: whatever the server answers, also when hasNextPage stays true forever
\* while the cursor changes or cycles, ListAllIssues eventually returns a
\* result or an error.
C2_FetchAllReturns == <>(pgPc \in {"done", "error"})

\* The deadline ended a fetch whose server claimed more pages on every page.
C2_Witness ==
    /\ pgPc = "error"
    /\ pgErr = "ctx"
    /\ Len(reqLog) >= 3
    /\ \A i \in 1..Len(script) : script[i].kind = "page" /\ script[i].hasNextPage
    /\ \A i \in 1..Len(script) : script[i].endCursor # ""

\* The cursor the k-th request of a fetch over the script has to carry.
ExpectedAfter(k) == IF k = 1 THEN "" ELSE script[k - 1].endCursor

\* A scripted server of n pages whose cursors advance and whose last page
\* alone has hasNextPage = false.
AdvancingScript ==
    LET n == Len(script) IN
    /\ \A k \in 1..n : script[k].kind = "page"
    /\ ~script[n].hasNextPage
    /\ \A k \in 1..(n - 1) :
          /\ script[k].hasNextPage
          /\ script[k].endCursor # ""
          /\ script[k].endCursor # ExpectedAfter(k)

RECURSIVE ConcatPages(_)
\* The nodes of the first k pages of the script, in server order.
ConcatPages(k) == IF k = 0 THEN <<>> ELSE ConcatPages(k - 1) \o script[k].nodes

\* C3: against a scripted server of n >= 1 advancing pages, ListAllIssues
\* issues exactly n requests, one after another (a request goes out only when
\* the previous page has been appended), the first without a cursor and the
\* k-th with the end cursor of page k-1, and returns the concatenation of the
\* pages' nodes in server order; it fails only if the deadline of the command
\* passes first.
C3_ScriptedFetch ==
    (AdvancingScript /\ fetchAll /\ client.built) =>
        /\ Len(reqLog) <= Len(script)
        /\ \A k \in 1..Len(reqLog) : reqLog[k] = ExpectedAfter(k)
        /\ Len(httpLog) = Len(reqLog)
        /\ pgPc = "send" => allIssues = ConcatPages(Len(reqLog))
        /\ pgPc = "wait" => allIssues = ConcatPages(Len(reqLog) - 1)
        /\ pgPc = "done" => /\ Len(reqLog) = Len(script)
                            /\ pgResult = ConcatPages(Len(script))
        /\ pgPc = "error" => pgErr = "ctx"

\* A three-page fetch completed with all its nodes.
C3_Witness ==
    /\ AdvancingScript
    /\ Len(script) = 3
    /\ pgPc = "done"
    /\ Len(pgResult) >= 4

\* ------------------------------------------------ the OAuth flow: claims

\* startCallbackServer has returned.
CallbackServerReturned ==
    /\ branch # ""
    /\ aPc \in {"exchange", "save", "done", "failed"}

\* C4 as stated: a code is returned only for a callback whose state equals
\* the state generated for the attempt, and a callback carrying any other
\* state makes the flow fail with the state-mismatch error, with no token
\* exchange, no retry and no credential persisted.
C4_AnyOtherStateIsMismatch ==
    /\ authCode # "" => (branch = "callback" /\ result.State = expectedState)
    /\ (CallbackServerReturned /\ branch = "callback" /\ result.State # expectedState) =>
          /\ aPc = "failed"
          /\ aErr = "state_mismatch"
          /\ exchanges = 0
          /\ saves = 0
          /\ ~serverOpen
          /\ tokenFile = fileBefore

\* C4 amended: a code is returned, and sent to the token endpoint, only for a
\* callback whose state equals the state generated for the attempt; when the
\* callback the authorizer takes from the channel carries another state the
\* flow fails, with the state-mismatch error if its error parameter is empty
\* and with the authorization error otherwise, with no token exchange, no
\* retry and no credential persisted.
C4_StateChecked ==
    /\ authCode # "" => (branch = "callback" /\ result.State = expectedState)
    /\ tokenReq # NoForm => (result.State = expectedState /\ tokenReq.code = result.Code)
    /\ (CallbackServerReturned /\ branch = "callback" /\ result.State # expectedState) =>
          /\ aPc = "failed"
          /\ aErr = IF result.Error = "" THEN "state_mismatch" ELSE "authorization_error"
          /\ exchanges = 0
          /\ saves = 0
          /\ ~serverOpen
          /\ tokenFile = fileBefore

\* A callback with a code and another attempt's state was rejected.
C4_Witness ==
    /\ aPc = "failed"
    /\ aErr = "state_mismatch"
    /\ branch = "callback"
    /\ result.Code # ""
    /\ result.State = "s1"
    /\ expectedState = "s2"

\* C5: when no callback arrives before the deadline, the flow reports the
\* timeout error, not the state-mismatch or any other error, and leaves no
\* credential persisted.
C5_TimeoutReported ==
    (CallbackServerReturned /\ branch = "timeout" /\ handlers = <<>>) =>
        /\ aPc = "failed"
        /\ aErr = "authorization_error"
        /\ aErrDetail = TimeoutMsg
        /\ tokenFile = fileBefore

\* C6: in every interleaving of callbacks and deadline startCallbackServer
\* returns: the main task is never left blocked on the channel.  In the
\* timeout branch the main task sends on the channel, which it alone
\* receives from, so finding the buffer full there blocks it for ever.
C6_MainNeverBlocked ==
    ~(aPc = "timeoutSend" /\ Len(resultChan) >= ChanCap)

\* C7: SaveToken is called only after a callback was received with an empty
\* error parameter, the matching state and a non-empty code, and the token
\* endpoint answered with status 200 and a body that decodes; on every other
\* path the token file is as it was before the attempt.
C7_SaveOnlyAfterExchange ==
    /\ saves > 0 =>
          /\ branch = "callback"
          /\ result.Error = ""
          /\ result.State = expectedState
          /\ result.Code # ""
          /\ tokenResp.transport = "ok"
          /\ tokenResp.status = StatusOK
          /\ DecodeToken(tokenResp.body) # ""
    /\ saves = 0 => tokenFile = fileBefore
    /\ saves <= 1

\* A decoded token replaced the token stored before the attempt.
C7_Witness ==
    /\ aPc = "done"
    /\ saves = 1
    /\ fileBefore.exists
    /\ LoadToken(tokenFile, MachineKey).token = "tokNew"

\* C8: the code_challenge of the authorization URL is
\* base64url(sha256(verifier)) of the attempt's verifier, with method S256;
\* the token request carries that verifier as code_verifier and carries the
\* challenge in none of its fields.
C8_PKCE ==
    /\ authURL # NoURL =>
          /\ authURL.code_challenge = RawURLEncode(Sha256(codeVerifier))
          /\ authURL.code_challenge_method = "S256"
          /\ authURL.state = expectedState
    /\ tokenReq # NoForm =>
          /\ tokenReq.code_verifier = codeVerifier
          /\ \A f \in DOMAIN tokenReq : tokenReq[f] # authURL.code_challenge

\* A token request went out for the second verifier.
C8_Witness ==
    /\ tokenReq # NoForm
    /\ codeVerifier = "v2"
    /\ authURL.code_challenge = "ZDI"

\* C10: after every successful SaveToken the token file has mode 0600 and its
\* directory mode 0700, also when they existed with broader permissions.
C10_ModesEnforced ==
    (saves > 0 /\ saveOk) => (tokenFile.mode = M0600 /\ configDir.mode = M0700)

\* --------------------------------------------- credential resolution: claims

\* The session stored in the token file ("" when there is none).
StoredSession == LoadToken(tokenFile, MachineKey).token

\* C9: resolution is first-match-wins over the override, then the
\* stored session, then the keyring entry, and else unauthenticated; a
\* non-empty override is returned without consulting any store.
C9_OverrideSessionKeyring ==
    gk.called =>
        /\ envKey # "" => (gk.key = envKey /\ gk.err = "" /\ ~gk.opened)
        /\ (envKey = "" /\ StoredSession # "") => (gk.key = StoredSession /\ gk.err = "")
        /\ (envKey = "" /\ StoredSession = "" /\ gkRing.opens /\ gkRing.reads
              /\ gkRing.item # NoItem) => (gk.key = gkRing.item /\ gk.err = "")
        /\ (envKey = "" /\ StoredSession = "" /\ gkRing.opens /\ gkRing.reads
              /\ gkRing.item = NoItem) =>
              (gk.key = "" /\ gk.err = "no_api_key")

\* ------------------------------------------- session encryption: the claims

\* The bytes under the blob as it is, and under the blob encrypt returned.
BlobRaw == StdDecode(cBlob).raw
SealedRaw == StdDecode(cSealed.blob).raw

\* The blob cannot be read with the key: its text is not base64, it is
\* shorter than a nonce or than nonce and tag, it was encrypted under another
\* key, or its nonce, ciphertext or tag is not what encrypt produced.
Unreadable(key) ==
    \/ cBlob.fmt = "bad"
    \/ BlobRaw.size # "full"
    \/ (key # cKey /\ BlobRaw = SealedRaw)
    \/ (key = cKey /\ BlobRaw # SealedRaw)
    \/ BlobRaw.tag = FlippedTag

\* C11: decrypt returns a plaintext only for a blob that encrypt produces
\* under the same key; for a blob encrypted under another key, a blob with a
\* changed nonce, ciphertext or tag, text that is not base64 and a blob
\* shorter than the nonce it returns an error and no plaintext, and LoadToken
\* reports each of these cases as the 'failed to decrypt token' error.
C11_DecryptFailsClosed ==
    /\ dOut.called =>
          /\ dOut.err = "" =>
                /\ cBlob.fmt # "bad"
                /\ \E n \in Nonces, p \in Plaintexts :
                      BlobRaw = Seal(dOut.key, n, p) /\ dOut.plain = p
          /\ Unreadable(dOut.key) => dOut.err # ""
          /\ dOut.err # "" => dOut.plain = <<>>
    /\ cLoad.called =>
          (Unreadable(cLoad.key) => (cLoad.err = "decrypt" /\ cLoad.token = ""))

\* A changed ciphertext byte was refused by decrypt and by LoadToken under
\* the key of the blob.
C11_Witness ==
    /\ dOut.called
    /\ cLoad.called
    /\ dOut.key = cKey
    /\ Len(cPlain) = 2
    /\ BlobRaw.size = "full"
    /\ BlobRaw.ct # SealedRaw.ct
    /\ BlobRaw.nonce = SealedRaw.nonce
    /\ BlobRaw.tag = SealedRaw.tag
    /\ dOut.err = "open"
    /\ cLoad.err = "decrypt"

\* C12: for every plaintext P, every derived key K and every nonce, decrypt
\* of what encrypt returned for P and K, under K, returns exactly P without
\* error; a second encryption of P under K decrypts to P as well, and the two
\* blobs differ when their nonces differ.
C12_RoundTrip ==
    /\ (dOut.called /\ dOut.key = cKey /\ cBlob = cSealed.blob) =>
          (dOut.err = "" /\ dOut.plain = cPlain)
    /\ cSealed2.err = "" =>
          /\ decrypt(cSealed2.blob, cKey) = [plain |-> cPlain, err |-> ""]
          /\ cSealed2.blob.raw.nonce # cSealed.blob.raw.nonce
                => cSealed2.blob # cSealed.blob

\* A two-byte plaintext came back from the first of two different blobs.
C12_Witness ==
    /\ dOut.called
    /\ dOut.key = cKey
    /\ Len(cPlain) = 2
    /\ dOut.plain = cPlain
    /\ dOut.err = ""
    /\ cSealed2.err = ""
    /\ cSealed2.blob # cSealed.blob

\* ---------------------------------------------- the token store: the claims

\* C13: after a sequence of SaveToken and ClearToken calls on one machine
\* whose last call returned nil, LoadToken returns the TokenData of that call
\* if it was a SaveToken (whatever was stored before), and the 'no token
\* found' error if it was a ClearToken.
C13_LoadReturnsLastSave ==
    stLoad.called =>
        /\ (stSaved.op = "save" /\ stSaved.key = MachineKey) =>
              (stLoad.token = stSaved.tok /\ stLoad.err = "")
        /\ stSaved.op = "clear" => (stLoad.token = "" /\ stLoad.err = "no_token")

\* A token saved after a logout, over the token of an earlier run, was loaded.
C13_Witness ==
    /\ stLoad.called
    /\ stSaved.op = "save"
    /\ stLoad.token = "tokZero"
    /\ stClear.called
    /\ stClear.err = ""
    /\ ~stClear.absent
    /\ fileBefore.exists

\* C14: ClearToken when no token file exists returns nil and changes
\* nothing, and after every ClearToken that returned nil no token file
\* exists, so a second ClearToken has the result of the first; it returns an
\* error only when an existing file could not be removed.  `auth logout`
\* does the same with the key in the keyring.
C14_ClearIdempotent ==
    [][/\ (\E rmOk \in BOOLEAN : ClearToken(rmOk)) =>
             /\ ~tokenFile.exists => (stClear'.err = "" /\ tokenFile' = tokenFile)
             /\ stClear'.err = "" => ~tokenFile'.exists
             /\ stClear'.err # "" => (tokenFile.exists /\ tokenFile' = tokenFile)
       /\ (\E rmOk \in BOOLEAN : AuthLogout(rmOk)) =>
             /\ (keyring.opens /\ keyring.item = NoItem) =>
                   (logout'.err = "" /\ keyring' = keyring)
             /\ logout'.err = "" => keyring'.item = NoItem
             /\ logout'.err # "" =>
                   (keyring' = keyring /\ (~keyring.opens \/ keyring.item # NoItem))
      ]_vars

\* A second ClearToken and a second logout, each after one that removed the
\* credential, returned nil.
C14_Witness ==
    /\ stClear.called
    /\ stClear.absent
    /\ stClear.err = ""
    /\ stSaved.op = "clear"
    /\ fileBefore.exists
    /\ ~tokenFile.exists
    /\ logout.called
    /\ ~logout.had
    /\ logout.err = ""
    /\ gkRing.item # NoItem

\* C15: with no override set, a missing keyring entry gives the 'no API key
\* found' error of GetAPIKey and the 'Not authenticated' status of
\* GetAuthStatus, and a keyring that cannot be opened or read gives another
\* error and another status, which name the keyring failure; in none of these
\* cases is a key returned or the caller reported as authenticated.
C15_AbsentIsNotFailure ==
    /\ (gk.called /\ envKey = "") =>
          /\ (gkRing.opens /\ gkRing.reads /\ gkRing.item = NoItem) => gk.err = "no_api_key"
          /\ ~gkRing.opens => gk.err = "keyring_access"
          /\ (gkRing.opens /\ ~gkRing.reads) => gk.err = "keyring_read"
          /\ gk.err # "" => gk.key = ""
    /\ (authStatus.called /\ envKey = "") =>
          /\ (authStatus.ring.opens /\ authStatus.ring.reads /\ authStatus.ring.item = NoItem)
                => authStatus.source = "Not authenticated"
          /\ ~authStatus.ring.opens => authStatus.source = "Error accessing keyring"
          /\ (authStatus.ring.opens /\ ~authStatus.ring.reads)
                => authStatus.source = "Error reading keyring"
          /\ authStatus.source # "System keyring" => ~authStatus.authenticated

\* GetAPIKey found no entry and, later, GetAuthStatus found the keyring closed.
C15_Witness ==
    /\ envKey = ""
    /\ gk.called
    /\ gk.err = "no_api_key"
    /\ authStatus.called
    /\ ~authStatus.ring.opens
    /\ authStatus.source = "Error accessing keyring"
    /\ ~authStatus.authenticated

\* C16: with LINEAR_API_KEY unset and a keyring that opens and reads,
\* GetAPIKey returns the key passed to the last SaveAPIKey that returned nil;
\* a SaveAPIKey that cannot open the keyring returns the keyring-access error,
\* and every SaveAPIKey that returns an error leaves the stored key as it was.
C16_LastSavedKey ==
    [][/\ CallGetAPIKey =>
             ((envKey = "" /\ savedKey # "" /\ keyring.opens /\ keyring.reads) =>
                  (gk'.key = savedKey /\ gk'.err = ""))
       /\ \A apiKey \in APIKeys, setOk \in BOOLEAN :
             SaveAPIKey(apiKey, setOk) =>
                /\ ~keyring.opens => lastSave' = "keyring_access"
                /\ lastSave' # "" => keyring' = keyring
                /\ lastSave' = "" => keyring'.item = apiKey
      ]_vars

\* After a save of a key and a later save that could not open the keyring,
\* GetAPIKey returned that key.
C16_Witness ==
    /\ envKey = ""
    /\ gk.called
    /\ gk.key = "k2"
    /\ savedKey = "k2"
    /\ gkRing.item = "k2"
    /\ keyring.item = "k2"
    /\ lastSave = "keyring_access"

\* ---------------------------------------- the GraphQL transport: the claims

\* The last answer is a decodable GraphQL response with at least one error.
CarriesErrors ==
    /\ doOut.called
    /\ doResp.transport = "ok"
    /\ doResp.body.json
    /\ Len(doResp.body.errors) > 0

\* The pieces of text an error carries.
TextOf(out) == {out.text[i] : i \in 1..Len(out.text)}

\* C17: when a response with a success status (2xx) carries one or
\* more GraphQL errors, Do returns an error whose message is the first
\* error's message, also when the response carries data, and data is not
\* decoded into the caller's result.
C17_FirstErrorOnSuccessStatus ==
    (CarriesErrors /\ doResp.status \in 200..299) =>
        /\ doOut.err = "graphql"
        /\ doOut.text = <<doResp.body.errors[1]>>
        /\ doOut.result = "untouched"

\* C18: when the API answers with a non-2xx status, Do returns an HTTP-status
\* error with the status and at most a bounded prefix of the body, whatever
\* the length of the body: for the longest body the error carries less than
\* the whole of it.
C18_BodyPrefixBounded ==
    (doOut.called /\ doResp.transport = "ok" /\ doResp.status \notin 200..299) =>
        /\ doOut.err = "unexpected status"
        /\ Len(doResp.body.text) = MaxBody => Len(doOut.text) < MaxBody

\* The credential that resolution yields for the environment and the keyring.
Resolved ==
    IF envKey # "" THEN envKey
    ELSE IF keyring.opens /\ keyring.reads /\ keyring.item # NoItem THEN keyring.item
    ELSE ""

\* C19: if resolution yields no credential (no override and nothing stored,
\* or the keyring cannot be opened or read) NewClient fails and no HTTP
\* request is ever sent; every request a command makes carries the resolved
\* credential as its Authorization header: the override when there is one,
\* else what is stored, the key of the keyring or the access token of the
\* session.  The requests that follow a redirect are left out of account.
C19_NoCredentialNoRequest ==
    /\ (client.called /\ Resolved = "") => (~client.built /\ client.err # "")
    /\ (Resolved = "" /\ StoredSession = "") => httpLog = <<>>
    /\ \A i \in 1..Len(httpLog) :
          httpLog[i].follows = 0 =>
             /\ httpLog[i].Authorization # ""
             /\ IF envKey # ""
                  THEN httpLog[i].Authorization = envKey
                  ELSE httpLog[i].Authorization \in {Resolved, AccessToken(StoredSession)}

\* C20: no error returned by Do contains the API key, also when the answer
\* of the server echoes the request it received.
C20_NoSecretInError ==
    (doOut.called /\ doOut.err # "") => client.apiKey \notin TextOf(doOut)

\* ------------------------------------------------------ no automatic retry

\* C21 as stated: nothing is retried: every Do call sends one HTTP request
\* and no more, whatever its outcome; the token exchange is attempted at most
\* once in an authorization attempt and nothing follows its failure; the
\* first failing page of a fetch-all ends the operation with that error, with
\* no further request and without the issues collected so far.
C21_NoRetry ==
    /\ [](/\ exchanges <= 1
          /\ (aPc = "failed" /\ aErr = "exchange") => (exchanges = 1 /\ saves = 0)
          /\ (pgPc = "error" /\ pgErr = "do") =>
                /\ ServerResponse(Len(httpLog)).kind = "fail"
                /\ \A k \in 1..(Len(httpLog) - 1) : ServerResponse(k).kind # "fail"
                /\ pgResult = <<>>)
    /\ [][/\ Len(httpLog') <= Len(httpLog) + 1
          /\ pgPc = "error" => (reqLog' = reqLog /\ httpLog' = httpLog)
          /\ aPc = "failed" => exchanges' = exchanges
         ]_vars

\* C21, amended: nothing is retried: every Do call sends one HTTP request
\* (none when its context is done before it is called) and, after it, only
\* requests that follow a redirect answer, none after a
\* transport error, another status or a GraphQL error; the token exchange is
\* attempted at most once in an authorization attempt and nothing follows its
\* failure; the first failing page of a fetch-all ends the operation with
\* that error, with no further request and without the issues collected.
C21_OnlyRedirectsFollowed ==
    /\ [](/\ exchanges <= 1
          /\ (aPc = "failed" /\ aErr = "exchange") => (exchanges = 1 /\ saves = 0)
          /\ (pgPc = "error" /\ pgErr = "do") =>
                /\ ServerResponse(Len(httpLog)).kind = "fail"
                /\ \A k \in 1..(Len(httpLog) - 1) : ServerResponse(k).kind # "fail"
                /\ pgResult = <<>>)
    /\ [][/\ httpLog' # httpLog =>
                /\ Len(httpLog') > Len(httpLog)
                /\ SubSeq(httpLog', 1, Len(httpLog)) = httpLog
                /\ httpLog'[Len(httpLog) + 1].follows = 0 =>
                      (pgPc # "off" => reqLog' = Append(reqLog, after))
                /\ httpLog'[Len(httpLog) + 1].follows # 0 =>
                      /\ pgPc = "wait"
                      /\ ServerResponse(Len(httpLog)).kind = "redirect"
                      /\ httpLog'[Len(httpLog) + 1].follows =
                            ServerResponse(Len(httpLog)).hop.status
                /\ \A i \in (Len(httpLog) + 2)..Len(httpLog') :
                      httpLog'[i].follows \in RedirectStatuses
          /\ pgPc = "error" => (reqLog' = reqLog /\ httpLog' = httpLog)
          /\ aPc = "failed" => exchanges' = exchanges
         ]_vars

\* A Do call followed a redirect and its second request failed in transport:
\* two requests were sent and no third.
C21_Witness ==
    /\ doOut.called
    /\ doOut.err = "request failed"
    /\ Len(httpLog) = 2
    /\ httpLog[2].follows = 307
    /\ httpLog[2].Authorization = client.apiKey

\* ------------------------------------------------- the callback server closes

\* The attempt is before or in its waiting state: the select, and the
\* server.Close that the chosen case starts with.
AwaitingCallback == aPc \in {"idle", "wait", "close"}

\* C23: on both ways out of the select (a result was received, the five
\* minutes passed) server.Close has run before the checks on the result, so
\* once the attempt has left the waiting state the server is closed and no
\* further /callback request is accepted.
C23_ClosedBeforeValidation ==
    /\ [](~AwaitingCallback => ~serverOpen)
    /\ [][~AwaitingCallback => Len(handlers') = Len(handlers)]_vars

\* The deadline expired while a request was being handled: the server is
\* closed and the checks on the result are about to run.
C23_Witness ==
    /\ aPc = "validate"
    /\ branch = "timeout"
    /\ listening
    /\ ~serverOpen
    /\ Len(handlers) = 1

\* ------------------------------------------------ callbacks and the channel

\* Handler i waits in `resultChan <- response`, the buffer is full, and the
\* authorizer is past its one receive: nothing will ever take from the
\* channel, so the send never completes.
BlockedForever(i) ==
    /\ handlers[i].pc = "deliver"
    /\ Len(resultChan) = ChanCap
    /\ aPc \notin {"idle", "wait"}

\* C24: in one authorization attempt the authorizer takes one result from
\* the channel, on its way out of the waiting state; callbacks that arrive
\* later change nothing of the outcome, and no handler is left blocked
\* forever on the channel.
C24_OneResultNoBlockedHandler ==
    /\ [][/\ result' # result => (aPc = "wait" /\ aPc' = "close")
          /\ aPc \notin {"idle", "wait"} => result' = result
          /\ aPc \in {"failed", "done"} =>
                (aErr' = aErr /\ aErrDetail' = aErrDetail /\ authCode' = authCode)
         ]_vars
    /\ [](\A i \in 1..Len(handlers) : ~BlockedForever(i))

\* C25: when the authorizer closes the server after receiving a result, the
\* handler that delivered it has finished writing its page: no handler is
\* between its send on the channel and its write of the response.
C25_PageWrittenBeforeClose ==
    [][(serverOpen /\ ~serverOpen' /\ branch' = "callback") =>
          \A i \in 1..Len(handlers) : handlers[i].pc # "write"]_vars

\* ------------------------------------------------- concurrent SaveToken

\* C26: when two invocations have both finished SaveToken on the same token
\* file, the file holds the complete blob of one of them, not a mixture or
\* a truncation, and a later LoadToken returns one of the two tokens.
C26_LastWriterWins ==
    (\A w \in Writers : wr[w].pc = "done") =>
        /\ \E w \in Writers : disk = FullText(w)
        /\ rcLoad.called => (rcLoad.err = "" /\ \E w \in Writers : rcLoad.token = wr[w].tok)

\* ---------------------------------------------------- project resolution

\* The name query was answered: Do returned nil and decoded the projects.
NameAnswered ==
    /\ pjOut.called
    /\ ~isUUID(pjIdent)
    /\ doOut.err = ""
    /\ doOut.result # "untouched"

\* The projects of the answer whose name is the identifier up to case.
ExactMatches == {k \in 1..Len(pjNodes) : EqualFold(pjNodes[k], pjIdent)}

\* C27: when a project is resolved by name, among several candidates a
\* project whose name equals the identifier up to case is chosen before
\* projects that only contain it, and with no exact match and more than one
\* partial match the lookup fails with an ambiguity error.
C27_ExactPreferredElseAmbiguous ==
    NameAnswered =>
        /\ ExactMatches # {} => (pjOut.err = "" /\ pjOut.index \in ExactMatches)
        /\ (ExactMatches = {} /\ Len(pjNodes) > 1) => pjOut.err \notin {"", "project not found"}

\* ------------------------------------------- the order of the callback checks

\* C28: the checks on a received callback run in a fixed order.  An error
\* parameter makes the flow fail with the authorization error carrying its
\* value, whatever state and code are; the state is compared only when there
\* is no error parameter; "no authorization code received" is reported only
\* when the state matched and the code is empty.
C28_CheckOrder ==
    (CallbackServerReturned /\ branch = "callback") =>
        /\ result.Error # "" => (aErr = "authorization_error" /\ aErrDetail = result.Error)
        /\ aErr = "state_mismatch" <=> (result.Error = "" /\ result.State # expectedState)
        /\ aErr = "no_code" <=>
              (result.Error = "" /\ result.State = expectedState /\ result.Code = "")

\* A callback with an error parameter, a code and another attempt's state
\* failed with the authorization error.
C28_Witness ==
    /\ aPc = "failed"
    /\ branch = "callback"
    /\ aErr = "authorization_error"
    /\ aErrDetail = result.Error
    /\ result.Code # ""
    /\ result.State # expectedState

\* ------------------------------------------- status and key resolution agree

\* C29: for every environment variable and keyring state GetAuthStatus
\* reports authenticated exactly when GetAPIKey returns a key without error,
\* and the source it names is where GetAPIKey takes the key from: the
\* environment variable (the keyring is not opened) or the keyring entry.
C29_StatusMatchesKey ==
    (gk.called /\ authStatus.called /\ gkRing = authStatus.ring) =>
        /\ authStatus.authenticated <=> gk.err = ""
        /\ authStatus.source = "Environment variable (LINEAR_API_KEY)" <=>
              (gk.err = "" /\ ~gk.opened /\ gk.key = envKey)
        /\ authStatus.source = "System keyring" <=>
              (gk.err = "" /\ gk.opened /\ gk.key = gkRing.item)
        /\ authStatus.source = "Error accessing keyring" <=> gk.err = "keyring_access"
        /\ authStatus.source = "Error reading keyring" <=> gk.err = "keyring_read"
        /\ authStatus.source = "Not authenticated" <=> gk.err = "no_api_key"

\* With no environment variable, both took the key of the keyring.
C29_Witness ==
    /\ gk.called
    /\ authStatus.called
    /\ gkRing = authStatus.ring
    /\ envKey = ""
    /\ authStatus.source = "System keyring"
    /\ authStatus.authenticated
    /\ gk.opened
    /\ gk.key # ""

\* ------------------------------------------------------------ auth whoami

\* C30: runWhoami ends without a runtime panic for every token LoadToken
\* can return, also for one whose access token is empty or shorter than the
\* prefix it prints.
C30_WhoamiNeverPanics ==
    whoami.called => whoami.out \in {"printed", "not authenticated"}

====
